---- MODULE Spec2Model ----
(***************************************************************************)
(* CAGED chord-voicing generation and validation of guitar-app-caged.      *)
(*                                                                         *)
(* The state machine records a call (op, args) and what it returned (ret), *)
(* the module-level shape tables (templates) and the state of the          *)
(* tablature view with its double-click handler.  Code arrays are          *)
(* 0-based; they are modelled as sequences and read through At(a, i),      *)
(* which takes the code's 0-based index.  Note names are strings; the      *)
(* notes Tonal.js returns are kept as pitch classes (Note.chroma), the     *)
(* only view of them the code ever compares.                               *)
(***************************************************************************)
EXTENDS Integers, Sequences, FiniteSets, TLC

VARIABLES op, args, ret, templates,
          lastClickTimeRef, isChordModalOpen, selectedChordForModal, chordVoicings,
          now, taps

\* the state of the tablature view and of the modal it opens
viewVars ==
  <<lastClickTimeRef, isChordModalOpen, selectedChordForModal, chordVoicings, now, taps>>

vars == <<op, args, ret, templates, viewVars>>

(***************************************************************************)
(* Bounds of the model.                                                    *)
(***************************************************************************)
\* largest library (chords-db) answer, in voicings
MaxLib == 2
\* largest relative fret value enumerated for the classifier's input
MaxPatternFret == 3
\* largest relative fret value of the positions whose difficulty is rated
MaxDifficultyFret == 2
\* largest number of clicks and re-renders of the tablature view that are followed
MaxTaps == 4
\* largest fret value of the fret arrays handed to validateChordVoicing
MaxValidateFret == 2
\* largest fret value, next to frets 12 and 24, of the fret arrays converted to positions
MaxConvertFret == 2

(***************************************************************************)
(* Arrays                                                                  *)
(***************************************************************************)
At(a, i) == a[i + 1]

Strings == 0..5

\* Array.prototype.indexOf
RECURSIVE indexOfFrom(_, _, _)
indexOfFrom(a, x, i) ==
  IF i >= Len(a) THEN -1
  ELSE IF At(a, i) = x THEN i
  ELSE indexOfFrom(a, x, i + 1)

indexOf(a, x) == indexOfFrom(a, x, 0)

\* Math.min(...a) of a non-empty array
RECURSIVE MinOf(_)
MinOf(a) ==
  IF Len(a) = 1 THEN a[1]
  ELSE LET m == MinOf(Tail(a)) IN IF a[1] <= m THEN a[1] ELSE m

\* Math.max(...a) of a non-empty array
RECURSIVE MaxOf(_)
MaxOf(a) ==
  IF Len(a) = 1 THEN a[1]
  ELSE LET m == MaxOf(Tail(a)) IN IF a[1] >= m THEN a[1] ELSE m

\* Array.prototype.filter with the predicate f > 0
RECURSIVE FilterPositive(_)
FilterPositive(a) ==
  IF a = <<>> THEN <<>>
  ELSE IF a[1] > 0 THEN <<a[1]>> \o FilterPositive(Tail(a))
  ELSE FilterPositive(Tail(a))

(***************************************************************************)
(* Notes                                                                   *)
(***************************************************************************)
chromatic == <<"C", "C#", "D", "D#", "E", "F", "F#", "G", "G#", "A", "A#", "B">>

stringTuning == <<"E", "A", "D", "G", "B", "E">>

STANDARD_TUNING == <<"E", "A", "D", "G", "B", "E">>

FlatNames == {"Db", "Eb", "Gb", "Ab", "Bb"}

\* the 12 pitch classes in sharp and in flat spelling
RootNames == {At(chromatic, i) : i \in 0..11} \cup FlatNames

\* a name Tonal.js reads as a note although the chromatic table does not hold it
TonalOnlyNames == {"E#"}

\* a name that no pitch class stands behind
UnknownNames == {"H"}

\* the note names a caller may pass
NoteNames == RootNames \cup TonalOnlyNames \cup UnknownNames

flatToSharp ==
  [n \in FlatNames |->
     CASE n = "Db" -> "C#"
       [] n = "Eb" -> "D#"
       [] n = "Gb" -> "F#"
       [] n = "Ab" -> "G#"
       [] n = "Bb" -> "A#"]

\* normalizeNoteName that leaves every name as it is spelled
normalizeNoteNameAsSpelled(note) == note

normalizeNoteName(note) ==
  IF note \in FlatNames THEN flatToSharp[note] ELSE note

\* Tonal's Note.chroma on the note names the model uses
NoteChroma(note) ==
  CASE note = "C" -> 0
    [] note = "C#" -> 1 [] note = "Db" -> 1
    [] note = "D" -> 2
    [] note = "D#" -> 3 [] note = "Eb" -> 3
    [] note = "E" -> 4
    [] note = "F" -> 5 [] note = "E#" -> 5
    [] note = "F#" -> 6 [] note = "Gb" -> 6
    [] note = "G" -> 7
    [] note = "G#" -> 8 [] note = "Ab" -> 8
    [] note = "A" -> 9
    [] note = "A#" -> 10 [] note = "Bb" -> 10
    [] note = "B" -> 11

\* getNoteOnString without the wrap-around into the first octave
getNoteOnStringNoWrap(note, stringIndex) ==
  LET normalizedNote == normalizeNoteName(note)
      openNote == At(stringTuning, stringIndex)
      openNoteIndex == indexOf(chromatic, openNote)
      targetNoteIndex == indexOf(chromatic, normalizedNote)
  IN targetNoteIndex - openNoteIndex

getNoteOnString(note, stringIndex) ==
  LET normalizedNote == normalizeNoteName(note)
      openNote == At(stringTuning, stringIndex)
      openNoteIndex == indexOf(chromatic, openNote)
      targetNoteIndex == indexOf(chromatic, normalizedNote)
  IN (targetNoteIndex - openNoteIndex + 12) % 12

\* getNoteOnString that only looks the open string up before it computes
getNoteOnStringThrowsOpenOnly(note, stringIndex) ==
  LET openNote == At(stringTuning, stringIndex)
      openNoteIndex == indexOf(chromatic, openNote)
  IN openNoteIndex = -1

\* getNoteOnString ends in throw new Error('Invalid note: ...')
getNoteOnStringThrows(note, stringIndex) ==
  LET normalizedNote == normalizeNoteName(note)
      openNote == At(stringTuning, stringIndex)
      openNoteIndex == indexOf(chromatic, openNote)
      targetNoteIndex == indexOf(chromatic, normalizedNote)
  IN openNoteIndex = -1 \/ targetNoteIndex = -1

(***************************************************************************)
(* Music theory (Tonal.js behind musicTheory.ts)                           *)
(***************************************************************************)
\* chroma of Note.transpose(openNote, Interval.fromSemitones(fret))
TransposedChroma(openNote, fret) == (NoteChroma(openNote) + fret) % 12

\* fretsToNotes: the notes of the strings that are not muted (-1), low to high
RECURSIVE fretsToNotesFrom(_, _, _)
fretsToNotesFrom(frets, tuning, i) ==
  IF i >= Len(frets) THEN <<>>
  ELSE IF At(frets, i) = -1 THEN fretsToNotesFrom(frets, tuning, i + 1)
  ELSE <<TransposedChroma(At(tuning, i), At(frets, i))>>
         \o fretsToNotesFrom(frets, tuning, i + 1)

fretsToNotes(frets, tuning) == fretsToNotesFrom(frets, tuning, 0)

\* interval structure of the chord types Chord.get resolves
ChordIntervals(mappedQuality) ==
  CASE mappedQuality = "" -> <<0, 4, 7>>
    [] mappedQuality = "m" -> <<0, 3, 7>>
    [] mappedQuality = "7" -> <<0, 4, 7, 10>>
    [] mappedQuality = "maj7" -> <<0, 4, 7, 11>>
    [] mappedQuality = "m7" -> <<0, 3, 7, 10>>
    [] mappedQuality = "sus2" -> <<0, 2, 7>>
    [] mappedQuality = "sus4" -> <<0, 5, 7>>
    [] OTHER -> <<>>

qualityMap(quality) ==
  CASE quality = "major" -> ""
    [] quality = "minor" -> "m"
    [] OTHER -> quality

\* Chord.get(name).empty: the root is no note or the chord type is unknown
chordEmpty(root, mappedQuality) ==
  root \in UnknownNames \/ Len(ChordIntervals(mappedQuality)) = 0

getChordNotes(root, quality) ==
  LET mappedQuality == qualityMap(quality)
      iv == IF ~chordEmpty(root, mappedQuality) THEN ChordIntervals(mappedQuality)
            ELSE IF ~chordEmpty(root, quality) THEN ChordIntervals(quality)
            ELSE <<>>
  IN [k \in 1..Len(iv) |-> (NoteChroma(root) + iv[k]) % 12]

\* validateChordVoicing that is content with one expected note being played
validateChordVoicingSomeNote(frets, expectedNotes) ==
  IF Len(expectedNotes) = 0 THEN FALSE
  ELSE LET playedNotes == fretsToNotes(frets, STANDARD_TUNING)
       IN \E e \in 1..Len(expectedNotes) :
            \E p \in 1..Len(playedNotes) : playedNotes[p] = expectedNotes[e]

validateChordVoicing(frets, expectedNotes) ==
  IF Len(expectedNotes) = 0 THEN FALSE
  ELSE LET playedNotes == fretsToNotes(frets, STANDARD_TUNING)
       IN \A e \in 1..Len(expectedNotes) :
            \E p \in 1..Len(playedNotes) : playedNotes[p] = expectedNotes[e]

(***************************************************************************)
(* Shape templates                                                         *)
(***************************************************************************)
Shapes == {"C", "A", "G", "E", "D"}

BaseQualities == {"major", "minor"}

CAGED_SHAPES ==
  [E |-> [major |-> [frets |-> <<0, 2, 2, 1, 0, 0>>, rootString |-> 0, rootFret |-> 0],
          minor |-> [frets |-> <<0, 2, 2, 0, 0, 0>>, rootString |-> 0, rootFret |-> 0]],
   A |-> [major |-> [frets |-> <<-1, 0, 2, 2, 2, 0>>, rootString |-> 1, rootFret |-> 0],
          minor |-> [frets |-> <<-1, 0, 2, 2, 1, 0>>, rootString |-> 1, rootFret |-> 0]],
   D |-> [major |-> [frets |-> <<-1, -1, 0, 2, 3, 2>>, rootString |-> 2, rootFret |-> 0],
          minor |-> [frets |-> <<-1, -1, 0, 2, 3, 1>>, rootString |-> 2, rootFret |-> 0]],
   G |-> [major |-> [frets |-> <<3, 2, 0, 0, 0, 3>>, rootString |-> 0, rootFret |-> 3],
          minor |-> [frets |-> <<3, 1, 0, 0, 3, 3>>, rootString |-> 0, rootFret |-> 3]],
   C |-> [major |-> [frets |-> <<-1, 3, 2, 0, 1, 0>>, rootString |-> 1, rootFret |-> 3],
          minor |-> [frets |-> <<-1, 3, 1, 0, 1, 3>>, rootString |-> 1, rootFret |-> 3]]]

(***************************************************************************)
(* Shape transposer                                                        *)
(***************************************************************************)
\* the validation of one string without the guard on negative frets
validateStringNoNegativeGuard(fret, stringIndex, theoreticalNotes) ==
  IF fret = -1 THEN -1
  ELSE LET singleStringFrets == [i \in 1..6 |-> IF i = stringIndex + 1 THEN fret ELSE -1]
           notes == fretsToNotes(singleStringFrets, STANDARD_TUNING)
       IN IF Len(notes) = 0 THEN -1
          ELSE IF \E k \in 1..Len(theoreticalNotes) : theoreticalNotes[k] = notes[1]
               THEN fret
               ELSE -1

\* the callback of transposed.map in step 5 of transposeShape
validateString(fret, stringIndex, theoreticalNotes) ==
  IF fret = -1 THEN -1
  ELSE IF fret < 0 THEN -1
  ELSE LET singleStringFrets == [i \in 1..6 |-> IF i = stringIndex + 1 THEN fret ELSE -1]
           notes == fretsToNotes(singleStringFrets, STANDARD_TUNING)
       IN IF Len(notes) = 0 THEN -1
          ELSE IF \E k \in 1..Len(theoreticalNotes) : theoreticalNotes[k] = notes[1]
               THEN fret
               ELSE -1

\* transposeShape ends in the exception of getNoteOnString (step 2)
transposeShapeThrows(rootNote, shapeType, quality) ==
  getNoteOnStringThrows(rootNote, templates.CAGED_SHAPES[shapeType][quality].rootString)

transposeShape(rootNote, shapeType, quality, validate) ==
  LET template == templates.CAGED_SHAPES[shapeType][quality]
      targetRootFret == getNoteOnString(rootNote, template.rootString)
      offset == targetRootFret - template.rootFret
      transposed == [i \in 1..6 |->
                       IF template.frets[i] = -1 THEN -1 ELSE template.frets[i] + offset]
      theoreticalNotes == getChordNotes(rootNote, quality)
      validated == [i \in 1..6 |-> validateString(transposed[i], i - 1, theoreticalNotes)]
  IN IF validate
     THEN IF Len(theoreticalNotes) = 0 THEN transposed ELSE validated
     ELSE transposed

(***************************************************************************)
(* Shape classifier                                                        *)
(***************************************************************************)
\* playedStrings that takes only fretted strings (fret > 0) as played
RECURSIVE playedStringsFromFretted(_, _)
playedStringsFromFretted(absoluteFrets, i) ==
  IF i >= Len(absoluteFrets) THEN <<>>
  ELSE IF At(absoluteFrets, i) > 0
       THEN <<i>> \o playedStringsFromFretted(absoluteFrets, i + 1)
       ELSE playedStringsFromFretted(absoluteFrets, i + 1)

\* indices of the strings that are played (fret >= 0), low to high
RECURSIVE playedStringsFrom(_, _)
playedStringsFrom(absoluteFrets, i) ==
  IF i >= Len(absoluteFrets) THEN <<>>
  ELSE IF At(absoluteFrets, i) >= 0
       THEN <<i>> \o playedStringsFrom(absoluteFrets, i + 1)
       ELSE playedStringsFrom(absoluteFrets, i + 1)

\* determineCAGEDShape with the C test of the A-string branch left out
determineCAGEDShapeNoC(frets, baseFret) ==
  LET absoluteFrets ==
        IF baseFret > 1
        THEN [i \in 1..Len(frets) |->
                IF frets[i] = -1 THEN -1
                ELSE IF frets[i] = 0 THEN 0 ELSE baseFret + frets[i] - 1]
        ELSE frets
      playedStrings == playedStringsFrom(absoluteFrets, 0)
  IN IF Len(playedStrings) = 0 THEN "E"
     ELSE
       LET lowestString == playedStrings[1]
           stringCount == Len(playedStrings)
           hasOpenStrings == \E i \in 1..Len(absoluteFrets) : absoluteFrets[i] = 0
       IN IF At(absoluteFrets, 0) = -1 /\ At(absoluteFrets, 1) = -1
               /\ At(absoluteFrets, 2) >= 0
          THEN "D"
          ELSE IF lowestString = 0 /\ stringCount >= 4
          THEN IF stringCount = 6 /\ hasOpenStrings /\ At(absoluteFrets, 5) > 0
               THEN "G" ELSE "E"
          ELSE IF lowestString = 1 THEN "A"
          ELSE IF lowestString = 0 THEN "E"
          ELSE IF lowestString = 2 THEN "D"
          ELSE "E"

\* determineCAGEDShape that moves open strings up with the baseFret as well
determineCAGEDShapeOpenMoved(frets, baseFret) ==
  LET absoluteFrets ==
        IF baseFret > 1
        THEN [i \in 1..Len(frets) |->
                IF frets[i] = -1 THEN -1 ELSE baseFret + frets[i] - 1]
        ELSE frets
      playedStrings == playedStringsFrom(absoluteFrets, 0)
  IN IF Len(playedStrings) = 0 THEN "E"
     ELSE
       LET lowestString == playedStrings[1]
           highestString == playedStrings[Len(playedStrings)]
           hasOpenStrings == \E i \in 1..Len(absoluteFrets) : absoluteFrets[i] = 0
           stringCount == Len(playedStrings)
       IN IF At(absoluteFrets, 0) = -1 /\ At(absoluteFrets, 1) = -1
               /\ At(absoluteFrets, 2) >= 0
          THEN "D"
          ELSE IF lowestString = 0 /\ stringCount >= 4
          THEN IF stringCount = 6 /\ hasOpenStrings /\ At(absoluteFrets, 5) > 0
               THEN "G" ELSE "E"
          ELSE IF lowestString = 1
          THEN IF At(absoluteFrets, 0) = -1 /\ hasOpenStrings
                    /\ At(absoluteFrets, 2) < At(absoluteFrets, 1)
               THEN "C" ELSE "A"
          ELSE IF stringCount >= 5 /\ lowestString = 0 /\ highestString = 5
          THEN "G"
          ELSE IF At(absoluteFrets, 0) = -1 /\ At(absoluteFrets, 1) > 0
          THEN IF hasOpenStrings THEN "C" ELSE "A"
          ELSE IF lowestString = 0 THEN "E"
          ELSE IF lowestString = 1 THEN "A"
          ELSE IF lowestString = 2 THEN "D"
          ELSE "E"

determineCAGEDShape(frets, baseFret) ==
  LET absoluteFrets ==
        IF baseFret > 1
        THEN [i \in 1..Len(frets) |->
                IF frets[i] = -1 THEN -1
                ELSE IF frets[i] = 0 THEN 0 ELSE baseFret + frets[i] - 1]
        ELSE frets
      playedStrings == playedStringsFrom(absoluteFrets, 0)
  IN IF Len(playedStrings) = 0 THEN "E"
     ELSE
       LET lowestString == playedStrings[1]
           highestString == playedStrings[Len(playedStrings)]
           hasOpenStrings == \E i \in 1..Len(absoluteFrets) : absoluteFrets[i] = 0
           stringCount == Len(playedStrings)
       IN IF At(absoluteFrets, 0) = -1 /\ At(absoluteFrets, 1) = -1
               /\ At(absoluteFrets, 2) >= 0
          THEN "D"
          ELSE IF lowestString = 0 /\ stringCount >= 4
          THEN IF stringCount = 6 /\ hasOpenStrings /\ At(absoluteFrets, 5) > 0
               THEN "G" ELSE "E"
          ELSE IF lowestString = 1
          THEN IF At(absoluteFrets, 0) = -1 /\ hasOpenStrings
                    /\ At(absoluteFrets, 2) < At(absoluteFrets, 1)
               THEN "C" ELSE "A"
          ELSE IF stringCount >= 5 /\ lowestString = 0 /\ highestString = 5
          THEN "G"
          ELSE IF At(absoluteFrets, 0) = -1 /\ At(absoluteFrets, 1) > 0
          THEN IF hasOpenStrings THEN "C" ELSE "A"
          ELSE IF lowestString = 0 THEN "E"
          ELSE IF lowestString = 1 THEN "A"
          ELSE IF lowestString = 2 THEN "D"
          ELSE "E"

(***************************************************************************)
(* Chord database helpers (chordDatabase.ts)                               *)
(*                                                                         *)
(* A ChordPosition is [frets, barres, baseFret]; fingers and midi are      *)
(* carried through by the code untouched and are left out.  The field      *)
(* template is bookkeeping of the model: "db" for a voicing the library    *)
(* supplied, the shape letter for one generated from that template.        *)
(***************************************************************************)
\* normalizeNoteForDB: the key of guitar.chords a note name is looked up under
normalizeNoteForDB(note) ==
  LET normalized == CASE note = "Db" -> "C#"
                      [] note = "Gb" -> "F#"
                      [] OTHER -> note
  IN CASE normalized = "C#" -> "Csharp"
       [] normalized = "F#" -> "Fsharp"
       [] OTHER -> normalized

\* the keys of guitar.chords
ChordsDbKeys ==
  {"C", "Csharp", "D", "Eb", "E", "F", "Fsharp", "G", "Ab", "A", "Bb", "B"}

toAbsoluteFrets(position) ==
  IF position.baseFret <= 1 THEN position.frets
  ELSE [i \in 1..Len(position.frets) |->
          IF position.frets[i] = -1 THEN -1
          ELSE IF position.frets[i] = 0 THEN 0
          ELSE position.baseFret + position.frets[i] - 1]

\* the predicate of filterVoicingsByPosition
inPositionRange(v, minFret, maxFret) ==
  LET activeFrets == FilterPositive(v.frets)
  IN IF Len(activeFrets) = 0 THEN TRUE
     ELSE LET maxFretInVoicing == MaxOf(activeFrets)
          IN maxFretInVoicing >= minFret /\ maxFretInVoicing <= maxFret

RECURSIVE filterVoicingsByPosition(_, _, _)
filterVoicingsByPosition(voicings, minFret, maxFret) ==
  IF voicings = <<>> THEN <<>>
  ELSE IF inPositionRange(voicings[1], minFret, maxFret)
       THEN <<voicings[1]>> \o filterVoicingsByPosition(Tail(voicings), minFret, maxFret)
       ELSE filterVoicingsByPosition(Tail(voicings), minFret, maxFret)

\* the comparator of sortByDifficulty: < 0 when a goes first
difficultyCompare(a, b) ==
  LET aHasOpen == \E i \in 1..Len(a.frets) : a.frets[i] = 0
      bHasOpen == \E i \in 1..Len(b.frets) : b.frets[i] = 0
  IN IF aHasOpen /\ ~bHasOpen THEN -1
     ELSE IF ~aHasOpen /\ bHasOpen THEN 1
     ELSE IF Len(a.barres) # Len(b.barres) THEN Len(a.barres) - Len(b.barres)
     ELSE a.baseFret - b.baseFret

\* stable insertion of v into a sorted array
RECURSIVE insertByDifficulty(_, _)
insertByDifficulty(sorted, v) ==
  IF sorted = <<>> THEN <<v>>
  ELSE IF difficultyCompare(v, sorted[1]) < 0 THEN <<v>> \o sorted
  ELSE <<sorted[1]>> \o insertByDifficulty(Tail(sorted), v)

\* sortByDifficulty that returns the copy unsorted
sortByDifficultyUnsorted(voicings) == voicings

\* [...voicings].sort(comparator); Array.prototype.sort is stable
RECURSIVE sortByDifficulty(_)
sortByDifficulty(voicings) ==
  IF voicings = <<>> THEN <<>>
  ELSE insertByDifficulty(sortByDifficulty(SubSeq(voicings, 1, Len(voicings) - 1)),
                          voicings[Len(voicings)])

(***************************************************************************)
(* Voicing assembler (cagedSystemEnhanced.ts)                              *)
(***************************************************************************)
\* calculateDifficulty that tests for beginner before it tests for advanced
calculateDifficultyBeginnerFirst(position, baseFret) ==
  LET hasBarres == Len(position.barres) > 0
      hasOpenStrings == \E i \in 1..Len(position.frets) : position.frets[i] = 0
  IN IF hasOpenStrings /\ ~hasBarres THEN "beginner"
     ELSE IF baseFret > 12 \/ Len(position.barres) > 1 THEN "advanced"
     ELSE "intermediate"

\* calculateDifficulty that looks for an open string on the low E string only
calculateDifficultyLowEOnly(position, baseFret) ==
  LET hasBarres == Len(position.barres) > 0
      hasOpenStrings == position.frets[1] = 0
  IN IF baseFret > 12 \/ Len(position.barres) > 1 THEN "advanced"
     ELSE IF hasOpenStrings /\ ~hasBarres THEN "beginner"
     ELSE "intermediate"

calculateDifficulty(position, baseFret) ==
  LET hasBarres == Len(position.barres) > 0
      hasOpenStrings == \E i \in 1..Len(position.frets) : position.frets[i] = 0
  IN IF baseFret > 12 \/ Len(position.barres) > 1 THEN "advanced"
     ELSE IF hasOpenStrings /\ ~hasBarres THEN "beginner"
     ELSE "intermediate"

\* the keys of fretCounts in insertion order: the distinct values > 0 of
\* relativeFrets[0..n-1], by first occurrence
RECURSIVE fretCountKeys(_, _)
fretCountKeys(relativeFrets, n) ==
  IF n = 0 THEN <<>>
  ELSE LET keys == fretCountKeys(relativeFrets, n - 1)
           fret == relativeFrets[n]
       IN IF fret > 0 /\ ~(\E k \in 1..Len(keys) : keys[k] = fret)
          THEN Append(keys, fret) ELSE keys

\* the barres array built by fretCounts.forEach
RECURSIVE barresOf(_, _, _)
barresOf(keys, relativeFrets, baseFret) ==
  IF keys = <<>> THEN <<>>
  ELSE LET fret == keys[1]
           count == Cardinality({i \in 1..Len(relativeFrets) : relativeFrets[i] = fret})
           absoluteBarreFret == IF baseFret = 1 THEN fret ELSE baseFret + fret - 1
       IN (IF count >= 2 THEN <<absoluteBarreFret>> ELSE <<>>)
            \o barresOf(Tail(keys), relativeFrets, baseFret)

\* absoluteFretsToChordPosition with relative frets counted from 0 at the baseFret
absoluteFretsToChordPositionFromZero(absoluteFrets, shape, quality) ==
  LET playedFrets == FilterPositive(absoluteFrets)
      baseFret == IF Len(playedFrets) > 0 THEN MinOf(playedFrets) ELSE 1
      relativeFrets ==
        [i \in 1..Len(absoluteFrets) |->
           IF absoluteFrets[i] = -1 THEN -1
           ELSE IF absoluteFrets[i] = 0 THEN 0
           ELSE IF baseFret = 1 THEN absoluteFrets[i]
           ELSE absoluteFrets[i] - baseFret]
      barres == barresOf(fretCountKeys(relativeFrets, Len(relativeFrets)),
                         relativeFrets, baseFret)
  IN [frets |-> relativeFrets, barres |-> barres, baseFret |-> baseFret,
      template |-> shape]

absoluteFretsToChordPosition(absoluteFrets, shape, quality) ==
  LET playedFrets == FilterPositive(absoluteFrets)
      baseFret == IF Len(playedFrets) > 0 THEN MinOf(playedFrets) ELSE 1
      relativeFrets ==
        [i \in 1..Len(absoluteFrets) |->
           IF absoluteFrets[i] = -1 THEN -1
           ELSE IF absoluteFrets[i] = 0 THEN 0
           ELSE IF baseFret = 1 THEN absoluteFrets[i]
           ELSE absoluteFrets[i] - baseFret + 1]
      barres == barresOf(fretCountKeys(relativeFrets, Len(relativeFrets)),
                         relativeFrets, baseFret)
  IN [frets |-> relativeFrets, barres |-> barres, baseFret |-> baseFret,
      template |-> shape]

\* qualityMapped that gives every other quality the major templates
qualityMappedNeverNull(quality) ==
  IF quality = "" \/ quality = "major" THEN "major"
  ELSE IF quality = "m" \/ quality = "minor" THEN "minor"
  ELSE "major"

\* quality === '' || 'major' ? 'major' : 'm' || 'minor' ? 'minor' : null
qualityMapped(quality) ==
  IF quality = "" \/ quality = "major" THEN "major"
  ELSE IF quality = "m" \/ quality = "minor" THEN "minor"
  ELSE "null"

\* presentShapes left empty
presentShapesNone(dbVoicings) == {}

\* presentShapes: the labels of the voicings in dbVoicings
presentShapesOf(dbVoicings) ==
  {determineCAGEDShape(dbVoicings[i].frets, dbVoicings[i].baseFret) :
     i \in 1..Len(dbVoicings)}

allShapes == <<"C", "A", "G", "E", "D">>

\* an exception leaves the callback of allShapes.forEach: the body runs
\* inside try, and catch (error) only warns
generatedForThrows(shape, root, quality, presentShapes) ==
  LET thrown == shape \notin presentShapes /\ transposeShapeThrows(root, shape, quality)
      caught == TRUE
  IN thrown /\ ~caught

\* one pass of allShapes.forEach: what the callback pushes for this shape
generatedFor(shape, root, quality, presentShapes, minFret, maxFret) ==
  IF shape \in presentShapes THEN <<>>
  ELSE IF transposeShapeThrows(root, shape, quality) THEN <<>>
  ELSE LET absoluteFrets == transposeShape(root, shape, quality, TRUE)
           hasInvalidFrets == \E i \in 1..Len(absoluteFrets) : absoluteFrets[i] < -1
           chordPosition == absoluteFretsToChordPosition(absoluteFrets, shape, quality)
           hasInvalidRelativeFrets ==
             \E i \in 1..Len(chordPosition.frets) : chordPosition.frets[i] < -1
       IN IF hasInvalidFrets THEN <<>>
          ELSE IF hasInvalidRelativeFrets THEN <<>>
          ELSE IF chordPosition.baseFret >= minFret /\ chordPosition.baseFret <= maxFret
               THEN <<chordPosition>>
               ELSE <<>>

\* allShapes.forEach that ends at the first missing shape it cannot add
RECURSIVE addMissingShapesUntilSkip(_, _, _, _, _, _, _)
addMissingShapesUntilSkip(dbVoicings, k, root, quality, presentShapes, minFret, maxFret) ==
  IF k > Len(allShapes) THEN dbVoicings
  ELSE IF allShapes[k] \notin presentShapes
            /\ generatedFor(allShapes[k], root, quality, presentShapes,
                            minFret, maxFret) = <<>>
       THEN dbVoicings
       ELSE addMissingShapesUntilSkip(
              dbVoicings \o generatedFor(allShapes[k], root, quality, presentShapes,
                                         minFret, maxFret),
              k + 1, root, quality, presentShapes, minFret, maxFret)

\* allShapes.forEach from index k on, pushing onto dbVoicings
RECURSIVE addMissingShapes(_, _, _, _, _, _, _)
addMissingShapes(dbVoicings, k, root, quality, presentShapes, minFret, maxFret) ==
  IF k > Len(allShapes) THEN dbVoicings
  ELSE addMissingShapes(
         dbVoicings \o generatedFor(allShapes[k], root, quality, presentShapes,
                                    minFret, maxFret),
         k + 1, root, quality, presentShapes, minFret, maxFret)

\* the callback of dbVoicings.map in step 5
enhance(pos, theoreticalNotes) ==
  LET absoluteFrets == toAbsoluteFrets(pos)
      cagedShape == determineCAGEDShape(pos.frets, pos.baseFret)
      difficulty == calculateDifficulty(pos, pos.baseFret)
      isValid == validateChordVoicing(absoluteFrets, theoreticalNotes)
  IN [frets |-> pos.frets, baseFret |-> pos.baseFret, cagedShape |-> cagedShape,
      difficulty |-> difficulty, barrePositions |-> pos.barres,
      validated |-> isValid, theoreticalNotes |-> theoreticalNotes,
      template |-> pos.template]

\* the filter of step 6 with a predicate that keeps every voicing
filterValidatedKeepAll(voicings) == voicings

\* enhancedVoicings.filter(v => v.validated)
RECURSIVE filterValidated(_)
filterValidated(voicings) ==
  IF voicings = <<>> THEN <<>>
  ELSE IF voicings[1].validated
       THEN <<voicings[1]>> \o filterValidated(Tail(voicings))
       ELSE filterValidated(Tail(voicings))

\* Array.prototype.slice(0, n)
slice0(a, n) == SubSeq(a, 1, IF n < Len(a) THEN n ELSE Len(a))

\* getValidatedCAGEDVoicings without the early return on an empty answer of
\* getChordNotes
getValidatedCAGEDVoicingsNoOracleReturn(root, quality, options, library) ==
  LET theoreticalNotes == getChordNotes(root, quality)
  IN IF Len(library) = 0 THEN <<>>
     ELSE
       LET filtered == filterVoicingsByPosition(library, options.minFret, options.maxFret)
           sorted == sortByDifficulty(filtered)
           dbVoicings ==
             IF qualityMapped(quality) # "null"
             THEN addMissingShapes(sorted, 1, root, qualityMapped(quality),
                                   presentShapesOf(sorted),
                                   options.minFret, options.maxFret)
             ELSE sorted
           enhancedVoicings ==
             [i \in 1..Len(dbVoicings) |-> enhance(dbVoicings[i], theoreticalNotes)]
           filteredVoicings ==
             IF options.onlyValidated THEN filterValidated(enhancedVoicings)
             ELSE enhancedVoicings
       IN slice0(filteredVoicings, options.maxVoicings)

\* getValidatedCAGEDVoicings(root, quality, options), where library is what
\* getChordVoicingsFromDB(root, quality) answers
getValidatedCAGEDVoicings(root, quality, options, library) ==
  LET theoreticalNotes == getChordNotes(root, quality)
  IN IF Len(theoreticalNotes) = 0 THEN <<>>
     ELSE IF Len(library) = 0 THEN <<>>
     ELSE
       LET filtered == filterVoicingsByPosition(library, options.minFret, options.maxFret)
           sorted == sortByDifficulty(filtered)
           dbVoicings ==
             IF qualityMapped(quality) # "null"
             THEN addMissingShapes(sorted, 1, root, qualityMapped(quality),
                                   presentShapesOf(sorted),
                                   options.minFret, options.maxFret)
             ELSE sorted
           enhancedVoicings ==
             [i \in 1..Len(dbVoicings) |-> enhance(dbVoicings[i], theoreticalNotes)]
           filteredVoicings ==
             IF options.onlyValidated THEN filterValidated(enhancedVoicings)
             ELSE enhancedVoicings
       IN slice0(filteredVoicings, options.maxVoicings)

\* an exception leaves getValidatedCAGEDVoicings: past the two early returns,
\* one that leaves the callback of allShapes.forEach
getValidatedCAGEDVoicingsThrows(root, quality, options, library) ==
  LET theoreticalNotes == getChordNotes(root, quality)
  IN /\ Len(theoreticalNotes) # 0
     /\ Len(library) # 0
     /\ qualityMapped(quality) # "null"
     /\ LET sorted == sortByDifficulty(
                        filterVoicingsByPosition(library, options.minFret,
                                                 options.maxFret))
        IN \E k \in 1..Len(allShapes) :
             generatedForThrows(allShapes[k], root, qualityMapped(quality),
                                presentShapesOf(sorted))

(***************************************************************************)
(* cagedSystem.ts: the generator that moves open shapes by semitones       *)
(***************************************************************************)
noteNames == <<"C", "C#", "D", "D#", "E", "F", "F#", "G", "G#", "A", "A#", "B">>

\* flatToSharp[note] || note, then noteNames.indexOf
getNoteIndex(note) ==
  LET normalizedNote == IF note \in DOMAIN flatToSharp THEN flatToSharp[note] ELSE note
  IN indexOf(noteNames, normalizedNote)

baseMajorShapes ==
  [C |-> [frets |-> <<-1, 3, 2, 0, 1, 0>>, rootString |-> 5, rootFret |-> 3, movable |-> FALSE],
   A |-> [frets |-> <<-1, 0, 2, 2, 2, 0>>, rootString |-> 5, rootFret |-> 0, movable |-> TRUE],
   G |-> [frets |-> <<3, 2, 0, 0, 0, 3>>, rootString |-> 6, rootFret |-> 3, movable |-> TRUE],
   E |-> [frets |-> <<0, 2, 2, 1, 0, 0>>, rootString |-> 6, rootFret |-> 0, movable |-> TRUE],
   D |-> [frets |-> <<-1, -1, 0, 2, 3, 2>>, rootString |-> 4, rootFret |-> 0, movable |-> TRUE]]

baseMinorShapes ==
  [A |-> [frets |-> <<-1, 0, 2, 2, 1, 0>>, rootString |-> 5, rootFret |-> 0, movable |-> TRUE],
   G |-> [frets |-> <<3, 1, 0, 0, 3, 3>>, rootString |-> 6, rootFret |-> 3, movable |-> TRUE],
   E |-> [frets |-> <<0, 2, 2, 0, 0, 0>>, rootString |-> 6, rootFret |-> 0, movable |-> TRUE],
   D |-> [frets |-> <<-1, -1, 0, 2, 3, 1>>, rootString |-> 4, rootFret |-> 0, movable |-> TRUE],
   C |-> [frets |-> <<-1, 3, 1, 0, 1, 3>>, rootString |-> 5, rootFret |-> 3, movable |-> TRUE]]

baseMaj7Shapes ==
  [C |-> [frets |-> <<-1, 3, 2, 0, 0, 0>>, rootString |-> 5, rootFret |-> 3, movable |-> TRUE],
   A |-> [frets |-> <<-1, 0, 2, 1, 2, 0>>, rootString |-> 5, rootFret |-> 0, movable |-> TRUE],
   G |-> [frets |-> <<3, 2, 0, 0, 0, 2>>, rootString |-> 6, rootFret |-> 3, movable |-> TRUE],
   E |-> [frets |-> <<0, 2, 1, 1, 0, 0>>, rootString |-> 6, rootFret |-> 0, movable |-> TRUE],
   D |-> [frets |-> <<-1, -1, 0, 2, 2, 2>>, rootString |-> 4, rootFret |-> 0, movable |-> TRUE]]

baseMin7Shapes ==
  [A |-> [frets |-> <<-1, 0, 2, 0, 1, 0>>, rootString |-> 5, rootFret |-> 0, movable |-> TRUE],
   G |-> [frets |-> <<3, 5, 3, 3, 3, 3>>, rootString |-> 6, rootFret |-> 3, movable |-> TRUE],
   E |-> [frets |-> <<0, 2, 0, 0, 0, 0>>, rootString |-> 6, rootFret |-> 0, movable |-> TRUE],
   D |-> [frets |-> <<-1, -1, 0, 2, 1, 1>>, rootString |-> 4, rootFret |-> 0, movable |-> TRUE],
   C |-> [frets |-> <<-1, 3, 1, 3, 4, 3>>, rootString |-> 5, rootFret |-> 3, movable |-> TRUE]]

baseDom7Shapes ==
  [C |-> [frets |-> <<-1, 3, 2, 3, 1, 0>>, rootString |-> 5, rootFret |-> 3, movable |-> TRUE],
   A |-> [frets |-> <<-1, 0, 2, 0, 2, 0>>, rootString |-> 5, rootFret |-> 0, movable |-> TRUE],
   G |-> [frets |-> <<3, 2, 0, 0, 0, 1>>, rootString |-> 6, rootFret |-> 3, movable |-> TRUE],
   E |-> [frets |-> <<0, 2, 0, 1, 0, 0>>, rootString |-> 6, rootFret |-> 0, movable |-> TRUE],
   D |-> [frets |-> <<-1, -1, 0, 2, 1, 2>>, rootString |-> 4, rootFret |-> 0, movable |-> TRUE]]

baseSus2Shapes ==
  [C |-> [frets |-> <<-1, 3, 0, 0, 3, 3>>, rootString |-> 5, rootFret |-> 3, movable |-> TRUE],
   A |-> [frets |-> <<-1, 0, 2, 2, 0, 0>>, rootString |-> 5, rootFret |-> 0, movable |-> TRUE],
   G |-> [frets |-> <<3, 0, 0, 0, 3, 3>>, rootString |-> 6, rootFret |-> 3, movable |-> TRUE],
   E |-> [frets |-> <<0, 2, 4, 4, 0, 0>>, rootString |-> 6, rootFret |-> 0, movable |-> TRUE],
   D |-> [frets |-> <<-1, -1, 0, 2, 3, 0>>, rootString |-> 4, rootFret |-> 0, movable |-> TRUE]]

baseSus4Shapes ==
  [C |-> [frets |-> <<-1, 3, 3, 0, 1, 1>>, rootString |-> 5, rootFret |-> 3, movable |-> TRUE],
   A |-> [frets |-> <<-1, 0, 2, 2, 3, 0>>, rootString |-> 5, rootFret |-> 0, movable |-> TRUE],
   G |-> [frets |-> <<3, 3, 0, 0, 1, 3>>, rootString |-> 6, rootFret |-> 3, movable |-> TRUE],
   E |-> [frets |-> <<0, 2, 2, 2, 0, 0>>, rootString |-> 6, rootFret |-> 0, movable |-> TRUE],
   D |-> [frets |-> <<-1, -1, 0, 2, 3, 3>>, rootString |-> 4, rootFret |-> 0, movable |-> TRUE]]

cagedOrderMajor == <<"C", "A", "G", "E", "D">>

cagedOrderMinor == <<"A", "G", "E", "D", "C">>

\* the tables of cagedSystem.ts, by the name of the constant that holds them
BaseTableNames ==
  {"baseMajorShapes", "baseMinorShapes", "baseMaj7Shapes", "baseMin7Shapes",
   "baseDom7Shapes", "baseSus2Shapes", "baseSus4Shapes"}

\* Math.min(...a.filter(f => f >= 0)); Infinity (here 99) for an empty list
minNonMuted(a) ==
  IF \A i \in 1..Len(a) : a[i] < 0 THEN 99
  ELSE CHOOSE m \in {a[i] : i \in 1..Len(a)} :
         m >= 0 /\ \A i \in 1..Len(a) : a[i] >= 0 => m <= a[i]

\* Math.max(...a.filter(f => f > 0)); -Infinity (here -99) for an empty list
maxFretted(a) ==
  IF \A i \in 1..Len(a) : a[i] <= 0 THEN -99
  ELSE CHOOSE m \in {a[i] : i \in 1..Len(a)} : \A i \in 1..Len(a) : m >= a[i]

\* transposeShape of cagedSystem.ts (private; the name transposeShape is the
\* exported one of cagedShapes.ts): newFrets is a copy of baseShape that the
\* loops write to; barrePositions is <<>> where the code hands back undefined
transposeShapeBySemitones(baseShape, semitones, rootString, rootFret) ==
  LET hasOpenStrings == \E i \in 1..Len(baseShape) : baseShape[i] = 0
      minFret == minNonMuted(baseShape)
      barre == hasOpenStrings /\ semitones > 0
      newFrets == [i \in 1..Len(baseShape) |->
                     IF barre
                     THEN IF baseShape[i] >= 0 THEN baseShape[i] + semitones
                          ELSE baseShape[i]
                     ELSE IF baseShape[i] > 0 THEN baseShape[i] + semitones
                          ELSE baseShape[i]]
      barrePositions == IF barre /\ minFret = 0 THEN <<semitones>> ELSE <<>>
  IN [frets |-> newFrets, position |-> rootFret + semitones,
      barrePositions |-> barrePositions]

\* the table and the order that generateCAGEDVoicings picks for a quality
baseShapesNameFor(quality) ==
  IF quality = "maj7" THEN "baseMaj7Shapes"
  ELSE IF quality = "m7" \/ quality = "min7" THEN "baseMin7Shapes"
  ELSE IF quality = "7" THEN "baseDom7Shapes"
  ELSE IF quality = "sus2" THEN "baseSus2Shapes"
  ELSE IF quality = "sus4" THEN "baseSus4Shapes"
  ELSE IF quality = "m" \/ quality = "min" \/ quality = "minor" THEN "baseMinorShapes"
  ELSE "baseMajorShapes"

cagedOrderFor(quality) ==
  IF quality = "maj7" THEN cagedOrderMajor
  ELSE IF quality = "m7" \/ quality = "min7" THEN cagedOrderMinor
  ELSE IF quality = "7" THEN cagedOrderMajor
  ELSE IF quality = "sus2" THEN cagedOrderMajor
  ELSE IF quality = "sus4" THEN cagedOrderMajor
  ELSE IF quality = "m" \/ quality = "min" \/ quality = "minor" THEN cagedOrderMinor
  ELSE cagedOrderMajor

\* the body of the loop without the skip of shapes above fret 15
voicingOfShapeNoSkip(shape, rootIndex, baseShapes) ==
  LET base == baseShapes[shape]
      baseNoteIndex == getNoteIndex(shape)
      semitones == (rootIndex - baseNoteIndex + 12) % 12
      t == transposeShapeBySemitones(base.frets, semitones, base.rootString,
                                     base.rootFret)
      difficulty ==
        IF Len(t.barrePositions) > 0
        THEN IF t.barrePositions[1] > 5 THEN "advanced" ELSE "intermediate"
        ELSE IF t.position > 7 THEN "intermediate" ELSE "beginner"
  IN <<[name |-> <<shape, "Shape",
                   IF t.position = 0 THEN "Open" ELSE "th Position", t.position>>,
        frets |-> t.frets, position |-> t.position, cagedShape |-> shape,
        difficulty |-> difficulty, barrePositions |-> t.barrePositions]>>

\* the body of the loop over cagedOrder for one shape: the voicing pushed, or
\* <<>> when the shape is skipped (maxFret > 15)
voicingOfShape(shape, rootIndex, baseShapes) ==
  LET base == baseShapes[shape]
      baseNoteIndex == getNoteIndex(shape)
      semitones == (rootIndex - baseNoteIndex + 12) % 12
      t == transposeShapeBySemitones(base.frets, semitones, base.rootString,
                                     base.rootFret)
      maxFret == maxFretted(t.frets)
      difficulty ==
        IF Len(t.barrePositions) > 0
        THEN IF t.barrePositions[1] > 5 THEN "advanced" ELSE "intermediate"
        ELSE IF t.position > 7 THEN "intermediate" ELSE "beginner"
  IN IF maxFret > 15 THEN <<>>
     ELSE <<[name |-> <<shape, "Shape",
                        IF t.position = 0 THEN "Open" ELSE "th Position", t.position>>,
             frets |-> t.frets, position |-> t.position, cagedShape |-> shape,
             difficulty |-> difficulty, barrePositions |-> t.barrePositions]>>

\* the loop over cagedOrder from index k on, voicings being the list so far;
\* it breaks once five voicings are pushed
RECURSIVE generateFrom(_, _, _, _, _)
generateFrom(voicings, k, cagedOrder, rootIndex, baseShapes) ==
  IF k > Len(cagedOrder) THEN voicings
  ELSE LET pushed == voicings \o voicingOfShape(cagedOrder[k], rootIndex, baseShapes)
       IN IF Len(pushed) > Len(voicings) /\ Len(pushed) >= 5 THEN pushed
          ELSE generateFrom(pushed, k + 1, cagedOrder, rootIndex, baseShapes)

\* generateCAGEDVoicings ends in throw new Error('Invalid note: ...')
generateCAGEDVoicingsThrows(rootNote, quality) ==
  getNoteIndex(rootNote) = -1

generateCAGEDVoicings(rootNote, quality) ==
  generateFrom(<<>>, 1, cagedOrderFor(quality), getNoteIndex(rootNote),
               templates[baseShapesNameFor(quality)])

(***************************************************************************)
(* The module-level tables and what the calls leave of them                *)
(***************************************************************************)
\* the tables as the modules define them: CAGED_SHAPES of cagedShapes.ts and
\* the seven base tables of cagedSystem.ts
ModuleTables ==
  [CAGED_SHAPES |-> CAGED_SHAPES,
   baseMajorShapes |-> baseMajorShapes, baseMinorShapes |-> baseMinorShapes,
   baseMaj7Shapes |-> baseMaj7Shapes, baseMin7Shapes |-> baseMin7Shapes,
   baseDom7Shapes |-> baseDom7Shapes, baseSus2Shapes |-> baseSus2Shapes,
   baseSus4Shapes |-> baseSus4Shapes]

\* a transposeShape whose transposed frets are written into template.frets
templatesAfterTransposeShapeInPlace(tables, rootNote, shapeType, quality) ==
  LET template == tables.CAGED_SHAPES[shapeType][quality]
      offset == getNoteOnString(rootNote, template.rootString) - template.rootFret
  IN [tables EXCEPT !.CAGED_SHAPES[shapeType][quality].frets =
        [i \in 1..6 |-> IF template.frets[i] = -1 THEN -1
                        ELSE template.frets[i] + offset]]

\* the tables after transposeShape of cagedShapes.ts: template.frets.map and
\* transposed.map build new arrays, the template is only read
templatesAfterTransposeShape(tables, rootNote, shapeType, quality) ==
  tables

\* the tables after allShapes.forEach of the assembler, from index k on
RECURSIVE templatesAfterAddMissingShapes(_, _, _, _, _)
templatesAfterAddMissingShapes(tables, k, root, quality, presentShapes) ==
  IF k > Len(allShapes) THEN tables
  ELSE templatesAfterAddMissingShapes(
         IF allShapes[k] \in presentShapes
              \/ transposeShapeThrows(root, allShapes[k], quality)
         THEN tables
         ELSE templatesAfterTransposeShape(tables, root, allShapes[k], quality),
         k + 1, root, quality, presentShapes)

\* the tables after getValidatedCAGEDVoicings: it reaches them only through
\* the transposeShape calls of step 4
templatesAfterGetValidatedCAGEDVoicings(tables, root, quality, options, library) ==
  IF Len(getChordNotes(root, quality)) = 0 \/ Len(library) = 0
       \/ qualityMapped(quality) = "null"
  THEN tables
  ELSE templatesAfterAddMissingShapes(
         tables, 1, root, qualityMapped(quality),
         presentShapesOf(sortByDifficulty(
           filterVoicingsByPosition(library, options.minFret, options.maxFret))))

\* the tables after the private transposeShape of cagedSystem.ts:
\* newFrets = [...baseShape] is a copy, so the loops write to the copy
templatesAfterTransposeShapeBySemitones(tables, baseShapesName, shape, semitones) ==
  tables

\* the tables after the loop of generateCAGEDVoicings, from index k on
RECURSIVE templatesAfterGenerateFrom(_, _, _, _, _)
templatesAfterGenerateFrom(tables, k, cagedOrder, rootIndex, baseShapesName) ==
  IF k > Len(cagedOrder) THEN tables
  ELSE templatesAfterGenerateFrom(
         templatesAfterTransposeShapeBySemitones(
           tables, baseShapesName, cagedOrder[k],
           (rootIndex - getNoteIndex(cagedOrder[k]) + 12) % 12),
         k + 1, cagedOrder, rootIndex, baseShapesName)

templatesAfterGenerateCAGEDVoicings(tables, rootNote, quality) ==
  IF generateCAGEDVoicingsThrows(rootNote, quality) THEN tables
  ELSE templatesAfterGenerateFrom(tables, 1, cagedOrderFor(quality),
                                  getNoteIndex(rootNote), baseShapesNameFor(quality))

(***************************************************************************)
(* AlphaTab chord generator (part_005)                                     *)
(*                                                                         *)
(* An AlphaTeX chord "(f.s f.s ...).1" is kept as the sequence of its      *)
(* <<fret, string>> pairs.  A score is kept times 60, which makes the      *)
(* average fret an integer for every count of fretted strings, as a record *)
(* [nan, value]: nan marks the NaN that JavaScript computes from 0 / 0.    *)
(***************************************************************************)
RECURSIVE fretsToAlphaTeXFrom(_, _)
fretsToAlphaTeXFrom(frets, stringIndex) ==
  IF stringIndex >= Len(frets) THEN <<>>
  ELSE (IF At(frets, stringIndex) >= 0
        THEN <<<<At(frets, stringIndex), 6 - stringIndex>>>> ELSE <<>>)
         \o fretsToAlphaTeXFrom(frets, stringIndex + 1)

fretsToAlphaTeX(frets) == fretsToAlphaTeXFrom(frets, 0)

\* '(0.6 0.5 0.4 0.3 0.2 0.1).1'
alphaTeXFallback == <<<<0, 6>>, <<0, 5>>, <<0, 4>>, <<0, 3>>, <<0, 2>>, <<0, 1>>>>

RECURSIVE SumOf(_)
SumOf(a) == IF a = <<>> THEN 0 ELSE a[1] + SumOf(Tail(a))

Number(n) == [nan |-> FALSE, value |-> n]

NaN == [nan |-> TRUE, value |-> 0]

\* the callback of voicings.map in findBestVoicing: the score of one voicing
scoreOf(voicing, expectedNotes) ==
  LET absoluteFrets == toAbsoluteFrets(voicing)
      isValid == validateChordVoicing(absoluteFrets, expectedNotes)
      hasOpenStrings == \E i \in 1..Len(absoluteFrets) : absoluteFrets[i] = 0
      fretted == FilterPositive(absoluteFrets)
      avgFret60 == (60 \div Len(fretted)) * SumOf(fretted)
      lowFrets == IF 3000 - 2 * avgFret60 > 0 THEN 3000 - 2 * avgFret60 ELSE 0
  IN IF ~isValid THEN Number(-60)
     ELSE IF Len(fretted) = 0 THEN NaN
     ELSE Number(60000 + (IF hasOpenStrings THEN 6000 ELSE 0) + lowFrets
                   - Len(voicing.barres) * 1200)

\* v.score >= 0, false for NaN
scoreAtLeastZero(score) == ~score.nan /\ score.value >= 0

\* the indices (1-based) that findBestVoicing may pick: the first entry with
\* score >= 0 of the sorted list.  With numbers only, the sort by
\* b.score - a.score is stable and puts the highest score first; with a NaN
\* among the scores the comparator is inconsistent and the order is up to the
\* engine, so any entry with score >= 0 may come first.  No index: null.
findBestVoicing(voicings, expectedNotes) ==
  LET score == [i \in 1..Len(voicings) |-> scoreOf(voicings[i], expectedNotes)]
      candidates == {i \in 1..Len(voicings) : scoreAtLeastZero(score[i])}
  IN IF \E i \in 1..Len(voicings) : score[i].nan
     THEN candidates
     ELSE {i \in candidates :
             \A j \in candidates :
               \/ score[j].value < score[i].value
               \/ (score[j].value = score[i].value /\ i <= j)}

\* the strings getValidatedChordForAlphaTab(note, quality) may return, where
\* voicings is what getChordVoicingsFromDB(note, quality) answers
getValidatedChordForAlphaTab(note, quality, voicings) ==
  LET theoreticalNotes == getChordNotes(note, quality)
      validatedVoicing == findBestVoicing(voicings, theoreticalNotes)
  IN IF Len(theoreticalNotes) = 0 THEN {alphaTeXFallback}
     ELSE IF Len(voicings) = 0 THEN {alphaTeXFallback}
     ELSE IF validatedVoicing = {}
     THEN {fretsToAlphaTeX(toAbsoluteFrets(voicings[1]))}
     ELSE {fretsToAlphaTeX(toAbsoluteFrets(voicings[i])) : i \in validatedVoicing}

(***************************************************************************)
(* extendedChords.ts: the static table of 7th and sus chords               *)
(*                                                                         *)
(* A chord name such as 'C#maj7' is kept as the pair of its root and its   *)
(* type, <<"C#", "maj7">>.                                                 *)
(***************************************************************************)
extendedChordShapes ==
     <<"C", "maj7">> :> <<-1, 3, 2, 0, 0, 0>>
  @@ <<"C#", "maj7">> :> <<-1, -1, 3, 1, 1, 1>>
  @@ <<"Db", "maj7">> :> <<-1, -1, 3, 1, 1, 1>>
  @@ <<"D", "maj7">> :> <<-1, -1, 0, 2, 2, 2>>
  @@ <<"D#", "maj7">> :> <<-1, -1, 1, 3, 3, 3>>
  @@ <<"Eb", "maj7">> :> <<-1, -1, 1, 3, 3, 3>>
  @@ <<"E", "maj7">> :> <<0, 2, 1, 1, 0, 0>>
  @@ <<"F", "maj7">> :> <<1, 3, 2, 2, 1, 0>>
  @@ <<"F#", "maj7">> :> <<2, 4, 3, 3, 2, 2>>
  @@ <<"Gb", "maj7">> :> <<2, 4, 3, 3, 2, 2>>
  @@ <<"G", "maj7">> :> <<3, 2, 0, 0, 0, 2>>
  @@ <<"G#", "maj7">> :> <<4, 6, 5, 5, 4, 4>>
  @@ <<"Ab", "maj7">> :> <<4, 6, 5, 5, 4, 4>>
  @@ <<"A", "maj7">> :> <<-1, 0, 2, 1, 2, 0>>
  @@ <<"A#", "maj7">> :> <<-1, 1, 3, 2, 3, 1>>
  @@ <<"Bb", "maj7">> :> <<-1, 1, 3, 2, 3, 1>>
  @@ <<"B", "maj7">> :> <<-1, 2, 4, 3, 4, 2>>
  @@ <<"C", "m7">> :> <<-1, 3, 1, 3, 4, 3>>
  @@ <<"C#", "m7">> :> <<-1, -1, 2, 4, 2, 4>>
  @@ <<"Db", "m7">> :> <<-1, -1, 2, 4, 2, 4>>
  @@ <<"D", "m7">> :> <<-1, -1, 0, 2, 1, 1>>
  @@ <<"D#", "m7">> :> <<-1, -1, 1, 3, 2, 2>>
  @@ <<"Eb", "m7">> :> <<-1, -1, 1, 3, 2, 2>>
  @@ <<"E", "m7">> :> <<0, 2, 0, 0, 0, 0>>
  @@ <<"F", "m7">> :> <<1, 3, 1, 1, 1, 1>>
  @@ <<"F#", "m7">> :> <<2, 4, 2, 2, 2, 2>>
  @@ <<"Gb", "m7">> :> <<2, 4, 2, 2, 2, 2>>
  @@ <<"G", "m7">> :> <<3, 5, 3, 3, 3, 3>>
  @@ <<"G#", "m7">> :> <<4, 6, 4, 4, 4, 4>>
  @@ <<"Ab", "m7">> :> <<4, 6, 4, 4, 4, 4>>
  @@ <<"A", "m7">> :> <<-1, 0, 2, 0, 1, 0>>
  @@ <<"A#", "m7">> :> <<-1, 1, 3, 1, 2, 1>>
  @@ <<"Bb", "m7">> :> <<-1, 1, 3, 1, 2, 1>>
  @@ <<"B", "m7">> :> <<-1, 2, 4, 2, 3, 2>>
  @@ <<"C", "7">> :> <<-1, 3, 2, 3, 1, 0>>
  @@ <<"C#", "7">> :> <<-1, -1, 3, 4, 2, 4>>
  @@ <<"Db", "7">> :> <<-1, -1, 3, 4, 2, 4>>
  @@ <<"D", "7">> :> <<-1, -1, 0, 2, 1, 2>>
  @@ <<"D#", "7">> :> <<-1, -1, 1, 3, 2, 3>>
  @@ <<"Eb", "7">> :> <<-1, -1, 1, 3, 2, 3>>
  @@ <<"E", "7">> :> <<0, 2, 0, 1, 0, 0>>
  @@ <<"F", "7">> :> <<1, 3, 1, 2, 1, 1>>
  @@ <<"F#", "7">> :> <<2, 4, 2, 3, 2, 2>>
  @@ <<"Gb", "7">> :> <<2, 4, 2, 3, 2, 2>>
  @@ <<"G", "7">> :> <<3, 2, 0, 0, 0, 1>>
  @@ <<"G#", "7">> :> <<4, 6, 4, 5, 4, 4>>
  @@ <<"Ab", "7">> :> <<4, 6, 4, 5, 4, 4>>
  @@ <<"A", "7">> :> <<-1, 0, 2, 0, 2, 0>>
  @@ <<"A#", "7">> :> <<-1, 1, 3, 1, 3, 1>>
  @@ <<"Bb", "7">> :> <<-1, 1, 3, 1, 3, 1>>
  @@ <<"B", "7">> :> <<-1, 2, 1, 2, 0, 2>>
  @@ <<"C", "sus2">> :> <<-1, 3, 0, 0, 3, 3>>
  @@ <<"C#", "sus2">> :> <<-1, -1, 3, 3, 4, 4>>
  @@ <<"Db", "sus2">> :> <<-1, -1, 3, 3, 4, 4>>
  @@ <<"D", "sus2">> :> <<-1, -1, 0, 2, 3, 0>>
  @@ <<"D#", "sus2">> :> <<-1, -1, 1, 3, 4, 1>>
  @@ <<"Eb", "sus2">> :> <<-1, -1, 1, 3, 4, 1>>
  @@ <<"E", "sus2">> :> <<0, 2, 4, 4, 0, 0>>
  @@ <<"F", "sus2">> :> <<-1, -1, 3, 0, 1, 1>>
  @@ <<"F#", "sus2">> :> <<2, 4, 4, 1, 2, 2>>
  @@ <<"Gb", "sus2">> :> <<2, 4, 4, 1, 2, 2>>
  @@ <<"G", "sus2">> :> <<3, 0, 0, 0, 3, 3>>
  @@ <<"G#", "sus2">> :> <<4, 6, 6, 3, 4, 4>>
  @@ <<"Ab", "sus2">> :> <<4, 6, 6, 3, 4, 4>>
  @@ <<"A", "sus2">> :> <<-1, 0, 2, 2, 0, 0>>
  @@ <<"A#", "sus2">> :> <<-1, 1, 3, 3, 1, 1>>
  @@ <<"Bb", "sus2">> :> <<-1, 1, 3, 3, 1, 1>>
  @@ <<"B", "sus2">> :> <<-1, 2, 4, 4, 2, 2>>
  @@ <<"C", "sus4">> :> <<-1, 3, 3, 0, 1, 1>>
  @@ <<"C#", "sus4">> :> <<-1, -1, 3, 3, 4, 4>>
  @@ <<"Db", "sus4">> :> <<-1, -1, 3, 3, 4, 4>>
  @@ <<"D", "sus4">> :> <<-1, -1, 0, 2, 3, 3>>
  @@ <<"D#", "sus4">> :> <<-1, -1, 1, 3, 4, 4>>
  @@ <<"Eb", "sus4">> :> <<-1, -1, 1, 3, 4, 4>>
  @@ <<"E", "sus4">> :> <<0, 2, 2, 2, 0, 0>>
  @@ <<"F", "sus4">> :> <<-1, -1, 3, 3, 1, 1>>
  @@ <<"F#", "sus4">> :> <<2, 4, 4, 4, 2, 2>>
  @@ <<"Gb", "sus4">> :> <<2, 4, 4, 4, 2, 2>>
  @@ <<"G", "sus4">> :> <<3, 3, 0, 0, 1, 3>>
  @@ <<"G#", "sus4">> :> <<4, 6, 6, 6, 4, 4>>
  @@ <<"Ab", "sus4">> :> <<4, 6, 6, 6, 4, 4>>
  @@ <<"A", "sus4">> :> <<-1, 0, 2, 2, 3, 0>>
  @@ <<"A#", "sus4">> :> <<-1, 1, 3, 3, 4, 1>>
  @@ <<"Bb", "sus4">> :> <<-1, 1, 3, 3, 4, 1>>
  @@ <<"B", "sus4">> :> <<-1, 2, 4, 4, 5, 2>>

\* extendedChordShapes[chordName] || null
getExtendedChordShape(chordName) ==
  IF chordName \in DOMAIN extendedChordShapes THEN extendedChordShapes[chordName]
  ELSE "null"

(***************************************************************************)
(* Operations                                                              *)
(***************************************************************************)
\* op is "idle" between calls, "call" once a caller has passed its arguments,
\* the name of the function once that function has returned and "throw" once
\* it has raised an exception instead
NoArgs == [fn |-> "-"]

\* the tablature views of the chord progression on screen, by chord
TabChords == {<<"C", "">>, <<"A", "m">>}

\* Date.now() when the page is loaded, in ms: any time of the present day is
\* far above the 300 ms window of the double click
ClockStart == 1000

Init ==
  /\ op = "idle"
  /\ args = NoArgs
  /\ ret = <<>>
  /\ templates = ModuleTables
  /\ lastClickTimeRef = [c \in TabChords |-> 0]
  /\ isChordModalOpen = FALSE
  /\ selectedChordForModal = "null"
  /\ chordVoicings = <<>>
  /\ now = ClockStart
  /\ taps = <<>>

\* a caller invokes transposeShape(rootNote, shapeType, quality, { validate })
TransposeShapeCall ==
  /\ op = "idle"
  /\ \E rootNote \in NoteNames, shapeType \in Shapes, quality \in BaseQualities,
        validate \in BOOLEAN :
       args' = [fn |-> "transposeShape", root |-> rootNote, shape |-> shapeType,
                quality |-> quality, validate |-> validate]
  /\ op' = "call"
  /\ UNCHANGED <<ret, templates, viewVars>>

\* transposeShape runs and returns, or throws
TransposeShapeRun ==
  /\ op = "call" /\ args.fn = "transposeShape"
  /\ IF transposeShapeThrows(args.root, args.shape, args.quality)
     THEN op' = "throw" /\ ret' = <<>>
     ELSE /\ op' = "transposeShape"
          /\ ret' = transposeShape(args.root, args.shape, args.quality, args.validate)
  /\ UNCHANGED <<args, viewVars>>
  /\ templates' = IF transposeShapeThrows(args.root, args.shape, args.quality)
                  THEN templates
                  ELSE templatesAfterTransposeShape(templates, args.root, args.shape,
                                                    args.quality)

\* fret patterns handed to the classifier
PatternFrets == -1..MaxPatternFret

ClassifierBaseFrets == {1, 2, 5}

\* a caller invokes determineCAGEDShape(frets, baseFret)
DetermineCAGEDShapeCall ==
  /\ op = "idle"
  /\ \E frets \in [1..6 -> PatternFrets], baseFret \in ClassifierBaseFrets :
       args' = [fn |-> "determineCAGEDShape", frets |-> frets, baseFret |-> baseFret]
  /\ op' = "call"
  /\ UNCHANGED <<ret, templates, viewVars>>

\* determineCAGEDShape runs and returns
DetermineCAGEDShapeRun ==
  /\ op = "call" /\ args.fn = "determineCAGEDShape"
  /\ op' = "determineCAGEDShape"
  /\ ret' = determineCAGEDShape(args.frets, args.baseFret)
  /\ UNCHANGED <<args, viewVars>>
  /\ UNCHANGED templates

\* chord qualities asked for: the two base qualities in both spellings,
\* an extended one and one Tonal.js does not know
Qualities == {"major", "minor", "", "m", "7", "h9"}

\* the template quality whose voicings stand in for the library's answer
LibraryQuality(quality) ==
  IF quality \in {"m", "minor"} THEN "minor" ELSE "major"

\* a movable chord form on the fretboard: the open form moved up by n frets
MovedForm(form, n) == [i \in 1..6 |-> IF form[i] = -1 THEN -1 ELSE form[i] + n]

\* first fret (0..11) at which a string sounds the root
RootFretOn(root, stringIndex) ==
  CHOOSE f \in 0..11 :
    (NoteChroma(At(STANDARD_TUNING, stringIndex)) + f) % 12 = NoteChroma(root)

\* absolute fret arrays the library may hold for a chord: the E-form and the
\* A-form barre chords, the A form with a sixth on the high E string, the A
\* form without its third, and the E form an octave up (up to fret 24)
LibraryAbsolute(root, quality) ==
  LET eForm == IF LibraryQuality(quality) = "minor"
               THEN <<0, 2, 2, 0, 0, 0>> ELSE <<0, 2, 2, 1, 0, 0>>
      aForm == IF LibraryQuality(quality) = "minor"
               THEN <<-1, 0, 2, 2, 1, 0>> ELSE <<-1, 0, 2, 2, 2, 0>>
      e == MovedForm(eForm, RootFretOn(root, 0))
      a == MovedForm(aForm, RootFretOn(root, 1))
  IN {e, a, [a EXCEPT ![6] = a[6] + 2], [a EXCEPT ![5] = -1]}
       \cup (IF e[1] + 14 <= 24 THEN {MovedForm(e, 12)} ELSE {})

\* ascending array of the members of a set of numbers
RECURSIVE Ascending(_)
Ascending(set) ==
  IF set = {} THEN <<>>
  ELSE LET m == CHOOSE x \in set : \A y \in set : x <= y
       IN <<m>> \o Ascending(set \ {m})

\* a voicing as chords-db stores it: baseFret the lowest fretted position,
\* frets relative to it, barres the relative frets that two or more strings share
LibraryPosition(abs) ==
  LET fretted == {abs[i] : i \in 1..6} \cap 1..24
      baseFret == IF fretted = {} THEN 1 ELSE CHOOSE x \in fretted : \A y \in fretted : x <= y
      frets == [i \in 1..6 |-> IF abs[i] <= 0 THEN abs[i] ELSE abs[i] - baseFret + 1]
  IN [frets |-> frets,
      barres |-> Ascending({f \in 1..24 : Cardinality({i \in 1..6 : frets[i] = f}) >= 2}),
      baseFret |-> baseFret,
      template |-> "db"]

LibraryPool(root, quality) == {LibraryPosition(abs) : abs \in LibraryAbsolute(root, quality)}

\* what getChordVoicingsFromDB may answer: nothing for a note that
\* normalizeNoteForDB maps to no key of guitar.chords, else up to MaxLib
\* different voicings
Libraries(root, quality) ==
  IF normalizeNoteForDB(root) \notin ChordsDbKeys THEN {<<>>}
  ELSE {lib \in UNION {[1..n -> LibraryPool(root, quality)] : n \in 0..MaxLib} :
          \A i, j \in 1..Len(lib) : lib[i] = lib[j] => i = j}

\* options of getValidatedCAGEDVoicings; the first range is the default
FretRanges == {<<0, 15>>, <<3, 5>>}

MaxVoicingsChoices == {5, 10}

\* a caller invokes getValidatedCAGEDVoicings(root, quality, options); library
\* is what chords-db holds for the chord
GetValidatedCAGEDVoicingsCall ==
  /\ op = "idle"
  /\ \E root \in NoteNames, quality \in Qualities, range \in FretRanges,
        maxVoicings \in MaxVoicingsChoices, onlyValidated \in BOOLEAN :
       \E library \in Libraries(root, quality) :
         args' = [fn |-> "getValidatedCAGEDVoicings", root |-> root,
                  quality |-> quality,
                  options |-> [maxVoicings |-> maxVoicings, minFret |-> range[1],
                               maxFret |-> range[2], onlyValidated |-> onlyValidated],
                  library |-> library]
  /\ op' = "call"
  /\ UNCHANGED <<ret, templates, viewVars>>

\* getValidatedCAGEDVoicings runs and returns, or throws
GetValidatedCAGEDVoicingsRun ==
  /\ op = "call" /\ args.fn = "getValidatedCAGEDVoicings"
  /\ IF getValidatedCAGEDVoicingsThrows(args.root, args.quality, args.options,
                                        args.library)
     THEN op' = "throw" /\ ret' = <<>>
     ELSE /\ op' = "getValidatedCAGEDVoicings"
          /\ ret' = getValidatedCAGEDVoicings(args.root, args.quality, args.options,
                                              args.library)
  /\ UNCHANGED <<args, viewVars>>
  /\ templates' = templatesAfterGetValidatedCAGEDVoicings(
                    templates, args.root, args.quality, args.options, args.library)

\* the caller takes the result; the next call starts from scratch
Return ==
  /\ op \notin {"idle", "call"}
  /\ op' = "idle"
  /\ args' = NoArgs
  /\ ret' = <<>>
  /\ UNCHANGED <<templates, viewVars>>

\* a caller classifies the frets transposeShape returned, as a voicing at baseFret 1
ClassifyTransposed ==
  /\ op = "transposeShape"
  /\ op' = "determineCAGEDShape"
  /\ args' = [fn |-> "determineCAGEDShape", frets |-> ret, baseFret |-> 1,
              transposed |-> args]
  /\ ret' = determineCAGEDShape(ret, 1)
  /\ UNCHANGED <<templates, viewVars>>

\* the frets that two or more strings of a fret array share
SharedFrets(frets) ==
  {f \in 1..MaxDifficultyFret : Cardinality({i \in 1..6 : frets[i] = f}) >= 2}

DifficultyBaseFrets == {1, 5, 13}

\* fret arrays of the positions handed to calculateDifficulty
DifficultyFrets == [1..6 -> -1..MaxDifficultyFret]

\* step 5 of the assembler rates a position, calculateDifficulty(pos, pos.baseFret):
\* relative frets, a barre on some of the frets that several strings share, a
\* baseFret
CalculateDifficultyCall ==
  /\ op = "idle"
  /\ \E frets \in DifficultyFrets, baseFret \in DifficultyBaseFrets :
       \E barred \in SUBSET SharedFrets(frets) :
         args' = [fn |-> "calculateDifficulty",
                  position |-> [frets |-> frets, barres |-> Ascending(barred),
                                baseFret |-> baseFret, template |-> "db"]]
  /\ op' = "call"
  /\ UNCHANGED <<ret, templates, viewVars>>

\* calculateDifficulty runs and returns
CalculateDifficultyRun ==
  /\ op = "call" /\ args.fn = "calculateDifficulty"
  /\ op' = "calculateDifficulty"
  /\ ret' = calculateDifficulty(args.position, args.position.baseFret)
  /\ UNCHANGED <<args, viewVars>>
  /\ UNCHANGED templates

\* a caller invokes getNoteOnString(note, stringIndex)
GetNoteOnStringCall ==
  /\ op = "idle"
  /\ \E note \in NoteNames, stringIndex \in 0..5 :
       args' = [fn |-> "getNoteOnString", note |-> note, stringIndex |-> stringIndex]
  /\ op' = "call"
  /\ UNCHANGED <<ret, templates, viewVars>>

\* getNoteOnString runs and returns, or throws
GetNoteOnStringRun ==
  /\ op = "call" /\ args.fn = "getNoteOnString"
  /\ IF getNoteOnStringThrows(args.note, args.stringIndex)
     THEN op' = "throw" /\ ret' = <<>>
     ELSE /\ op' = "getNoteOnString"
          /\ ret' = getNoteOnString(args.note, args.stringIndex)
  /\ UNCHANGED <<args, templates, viewVars>>

\* a caller invokes absoluteFretsToChordPosition(absoluteFrets, shape, quality)
\* on six values of -1 (muted), 0 (open), the lowest frets, fret 12 or fret 24
AbsoluteFretsToChordPositionCall ==
  /\ op = "idle"
  /\ \E absoluteFrets \in [1..6 -> (-1..MaxConvertFret) \cup {12, 24}],
        shape \in {"E"}, quality \in {"major"} :
       args' = [fn |-> "absoluteFretsToChordPosition", absoluteFrets |-> absoluteFrets,
                shape |-> shape, quality |-> quality]
  /\ op' = "call"
  /\ UNCHANGED <<ret, templates, viewVars>>

\* absoluteFretsToChordPosition runs and returns
AbsoluteFretsToChordPositionRun ==
  /\ op = "call" /\ args.fn = "absoluteFretsToChordPosition"
  /\ op' = "absoluteFretsToChordPosition"
  /\ ret' = absoluteFretsToChordPosition(args.absoluteFrets, args.shape, args.quality)
  /\ UNCHANGED <<args, templates, viewVars>>

\* the position goes on to toAbsoluteFrets, as pos does in step 5 of the assembler
ToAbsoluteFretsOfPosition ==
  /\ op = "absoluteFretsToChordPosition"
  /\ op' = "toAbsoluteFrets"
  /\ args' = [fn |-> "toAbsoluteFrets", position |-> ret, converted |-> args]
  /\ ret' = toAbsoluteFrets(ret)
  /\ UNCHANGED <<templates, viewVars>>

NextConvert ==
  \/ AbsoluteFretsToChordPositionCall \/ AbsoluteFretsToChordPositionRun
  \/ ToAbsoluteFretsOfPosition \/ Return

SpecConvert == Init /\ [][NextConvert]_vars

\* lists of expected notes, by name: none, triads in sharp and in flat
\* spelling, single notes and a fifth
ExpectedNoteLists ==
  {<<>>, <<"C", "E", "G">>, <<"A", "C", "E">>, <<"D", "F#", "A">>,
   <<"Db", "F", "Ab">>, <<"C#", "F", "G#">>, <<"E">>, <<"E", "B">>,
   <<"F#">>, <<"Gb">>}

\* a caller invokes validateChordVoicing(frets, expectedNotes)
ValidateChordVoicingCall ==
  /\ op = "idle"
  /\ \E frets \in [1..6 -> -1..MaxValidateFret], expectedNotes \in ExpectedNoteLists :
       args' = [fn |-> "validateChordVoicing", frets |-> frets,
                expectedNotes |-> expectedNotes]
  /\ op' = "call"
  /\ UNCHANGED <<ret, templates, viewVars>>

\* validateChordVoicing runs and returns; Note.chroma turns each expected
\* name into its pitch class
ValidateChordVoicingRun ==
  /\ op = "call" /\ args.fn = "validateChordVoicing"
  /\ op' = "validateChordVoicing"
  /\ ret' = validateChordVoicing(
              args.frets,
              [e \in 1..Len(args.expectedNotes) |-> NoteChroma(args.expectedNotes[e])])
  /\ UNCHANGED <<args, templates, viewVars>>

NextValidate == ValidateChordVoicingCall \/ ValidateChordVoicingRun \/ Return

SpecValidate == Init /\ [][NextValidate]_vars

\* the voicing of a chord on open strings alone: every string whose open note
\* is a chord tone is played open, the others are muted
OpenStringsAbsolute(root, quality) ==
  [i \in 1..6 |->
     IF \E k \in 1..Len(getChordNotes(root, quality)) :
          getChordNotes(root, quality)[k] = NoteChroma(STANDARD_TUNING[i])
     THEN 0 ELSE -1]

\* the voicings chords-db may hold for a chord of the progression: those of
\* LibraryPool and, where an open string is a chord tone, the open-strings one
AlphaTabPool(root, quality) ==
  LibraryPool(root, quality)
    \cup (IF \E i \in 1..6 : OpenStringsAbsolute(root, quality)[i] = 0
          THEN {LibraryPosition(OpenStringsAbsolute(root, quality))} ELSE {})

\* a caller invokes getValidatedChordForAlphaTab(note, quality); library is
\* what chords-db holds for the chord
GetValidatedChordForAlphaTabCall ==
  /\ op = "idle"
  /\ \E note \in NoteNames, quality \in Qualities :
       \E library \in
            IF normalizeNoteForDB(note) \notin ChordsDbKeys THEN {<<>>}
            ELSE {lib \in UNION {[1..n -> AlphaTabPool(note, quality)] : n \in 0..MaxLib} :
                    \A i, j \in 1..Len(lib) : lib[i] = lib[j] => i = j} :
         args' = [fn |-> "getValidatedChordForAlphaTab", root |-> note,
                  quality |-> quality, library |-> library]
  /\ op' = "call"
  /\ UNCHANGED <<ret, templates, viewVars>>

\* getValidatedChordForAlphaTab runs and returns
GetValidatedChordForAlphaTabRun ==
  /\ op = "call" /\ args.fn = "getValidatedChordForAlphaTab"
  /\ op' = "getValidatedChordForAlphaTab"
  /\ ret' \in getValidatedChordForAlphaTab(args.root, args.quality, args.library)
  /\ UNCHANGED <<args, templates, viewVars>>

NextAlphaTab ==
  GetValidatedChordForAlphaTabCall \/ GetValidatedChordForAlphaTabRun \/ Return

SpecAlphaTab == Init /\ [][NextAlphaTab]_vars

\* the qualities generateCAGEDVoicings is called with: its default '', the
\* spellings of minor, the extended ones and 'major', which it has no branch for
GenerateQualities ==
  {"", "major", "m", "min", "minor", "maj7", "m7", "min7", "7", "sus2", "sus4"}

\* a caller invokes generateCAGEDVoicings(rootNote, quality)
GenerateCAGEDVoicingsCall ==
  /\ op = "idle"
  /\ \E rootNote \in NoteNames, quality \in GenerateQualities :
       args' = [fn |-> "generateCAGEDVoicings", root |-> rootNote, quality |-> quality]
  /\ op' = "call"
  /\ UNCHANGED <<ret, templates, viewVars>>

\* generateCAGEDVoicings runs and returns, or throws
GenerateCAGEDVoicingsRun ==
  /\ op = "call" /\ args.fn = "generateCAGEDVoicings"
  /\ IF generateCAGEDVoicingsThrows(args.root, args.quality)
     THEN op' = "throw" /\ ret' = <<>>
     ELSE /\ op' = "generateCAGEDVoicings"
          /\ ret' = generateCAGEDVoicings(args.root, args.quality)
  /\ templates' = templatesAfterGenerateCAGEDVoicings(templates, args.root, args.quality)
  /\ UNCHANGED <<args, viewVars>>

NextGenerate == GenerateCAGEDVoicingsCall \/ GenerateCAGEDVoicingsRun \/ Return

SpecGenerate == Init /\ [][NextGenerate]_vars

\* the chord types a chord name may end in: those of the table, a plain
\* triad and one the table does not have
ExtendedTypes == {"maj7", "m7", "7", "sus2", "sus4", "", "dim"}

\* a caller invokes getExtendedChordShape(chordName)
GetExtendedChordShapeCall ==
  /\ op = "idle"
  /\ \E root \in NoteNames, type \in ExtendedTypes :
       args' = [fn |-> "getExtendedChordShape", chordName |-> <<root, type>>]
  /\ op' = "call"
  /\ UNCHANGED <<ret, templates, viewVars>>

\* getExtendedChordShape runs and returns
GetExtendedChordShapeRun ==
  /\ op = "call" /\ args.fn = "getExtendedChordShape"
  /\ op' = "getExtendedChordShape"
  /\ ret' = getExtendedChordShape(args.chordName)
  /\ UNCHANGED <<args, templates, viewVars>>

NextExtended == GetExtendedChordShapeCall \/ GetExtendedChordShapeRun \/ Return

SpecExtended == Init /\ [][NextExtended]_vars

\* the caller repeats the call of transposeShape with the arguments it has
\* just used; first keeps what the first call returned
TransposeShapeAgain ==
  /\ op = "transposeShape"
  /\ op' = "transposeShapeAgain"
  /\ args' = [fn |-> "transposeShape", root |-> args.root, shape |-> args.shape,
              quality |-> args.quality, validate |-> args.validate, first |-> ret]
  /\ ret' = transposeShape(args.root, args.shape, args.quality, args.validate)
  /\ templates' = templatesAfterTransposeShape(templates, args.root, args.shape,
                                               args.quality)
  /\ UNCHANGED viewVars

\* calls of the three functions that read the shape tables, in any sequence
NextTemplates ==
  \/ TransposeShapeCall \/ TransposeShapeRun \/ TransposeShapeAgain
  \/ GetValidatedCAGEDVoicingsCall \/ GetValidatedCAGEDVoicingsRun
  \/ GenerateCAGEDVoicingsCall \/ GenerateCAGEDVoicingsRun
  \/ Return

SpecTemplates == Init /\ [][NextTemplates]_vars

\* the time, in ms, that passes before a click
ClockSteps == {0, 1, 299, 300}

\* what chords-db, which is static data, holds for a chord of the progression
TabLibrary(chord) ==
  CHOOSE library \in Libraries(chord[1], chord[2]) : Len(library) = MaxLib

\* the options handleTap passes, with the defaults for the ones it leaves out
TapOptions == [maxVoicings |-> 5, minFret |-> 0, maxFret |-> 15, onlyValidated |-> TRUE]

\* the double-click test that takes two clicks in the same millisecond as one
isDoubleClickSameMillisecond(timeSinceLastClick) ==
  timeSinceLastClick < 300 /\ timeSinceLastClick >= 0

\* timeSinceLastClick < 300 && timeSinceLastClick > 0
isDoubleClick(timeSinceLastClick) ==
  timeSinceLastClick < 300 /\ timeSinceLastClick > 0

\* the user clicks the tablature view of a chord: handleTap runs.  When it
\* opens the modal, its three state updates re-render GuitarScaleApp;
\* GuitarTablature is declared inside GuitarScaleApp, so every tablature view
\* is mounted anew and starts with a lastClickTimeRef of 0
HandleTap ==
  /\ op = "idle"
  /\ Len(taps) < MaxTaps
  /\ \E chord \in TabChords, step \in ClockSteps :
       LET timeSinceLastClick == (now + step) - lastClickTimeRef[chord]
       IN /\ now' = now + step
          /\ IF isDoubleClick(timeSinceLastClick)
             THEN /\ chordVoicings' = getValidatedCAGEDVoicings(
                                        chord[1], chord[2], TapOptions, TabLibrary(chord))
                  /\ templates' = templatesAfterGetValidatedCAGEDVoicings(
                                    templates, chord[1], chord[2], TapOptions,
                                    TabLibrary(chord))
                  /\ selectedChordForModal' = chord
                  /\ isChordModalOpen' = TRUE
                  /\ lastClickTimeRef' = [c \in TabChords |-> 0]
                  /\ taps' = Append(taps, [kind |-> "tap", chord |-> chord,
                                           at |-> now + step, opened |-> TRUE])
             ELSE /\ lastClickTimeRef' = [lastClickTimeRef EXCEPT ![chord] = now + step]
                  /\ taps' = Append(taps, [kind |-> "tap", chord |-> chord,
                                           at |-> now + step, opened |-> FALSE])
                  /\ UNCHANGED <<chordVoicings, templates, selectedChordForModal,
                                 isChordModalOpen>>
  /\ UNCHANGED <<op, args, ret>>

\* onClose of the modal: setIsChordModalOpen(false) re-renders GuitarScaleApp
CloseModal ==
  /\ op = "idle"
  /\ Len(taps) < MaxTaps
  /\ isChordModalOpen
  /\ isChordModalOpen' = FALSE
  /\ lastClickTimeRef' = [c \in TabChords |-> 0]
  /\ taps' = Append(taps, [kind |-> "render", chord |-> <<"-", "-">>,
                           at |-> now, opened |-> FALSE])
  /\ UNCHANGED <<op, args, ret, templates, selectedChordForModal, chordVoicings, now>>

\* any other state update of GuitarScaleApp (key, scale type, chord
\* extension) re-renders it
Rerender ==
  /\ op = "idle"
  /\ Len(taps) < MaxTaps
  /\ lastClickTimeRef' = [c \in TabChords |-> 0]
  /\ taps' = Append(taps, [kind |-> "render", chord |-> <<"-", "-">>,
                           at |-> now, opened |-> FALSE])
  /\ UNCHANGED <<op, args, ret, templates, selectedChordForModal, chordVoicings,
                 isChordModalOpen, now>>

NextTap == HandleTap \/ CloseModal \/ Rerender

SpecTap == Init /\ [][NextTap]_vars

NextNote == GetNoteOnStringCall \/ GetNoteOnStringRun \/ Return

SpecNote == Init /\ [][NextNote]_vars

NextTranspose == TransposeShapeCall \/ TransposeShapeRun \/ Return

SpecTranspose == Init /\ [][NextTranspose]_vars

NextClassify == DetermineCAGEDShapeCall \/ DetermineCAGEDShapeRun \/ Return

SpecClassify == Init /\ [][NextClassify]_vars

NextVoicings == GetValidatedCAGEDVoicingsCall \/ GetValidatedCAGEDVoicingsRun \/ Return

SpecVoicings == Init /\ [][NextVoicings]_vars

NextRoundTrip ==
  TransposeShapeCall \/ TransposeShapeRun \/ ClassifyTransposed \/ Return

SpecRoundTrip == Init /\ [][NextRoundTrip]_vars

NextDifficulty == CalculateDifficultyCall \/ CalculateDifficultyRun \/ Return

SpecDifficulty == Init /\ [][NextDifficulty]_vars

Next ==
  \/ TransposeShapeCall \/ TransposeShapeRun
  \/ GetValidatedCAGEDVoicingsCall \/ GetValidatedCAGEDVoicingsRun
  \/ Return

Spec == Init /\ [][Next]_vars

(***************************************************************************)
(* Properties of the shape transposer                                      *)
(***************************************************************************)
OpenPitchClass(stringIndex) == NoteChroma(At(STANDARD_TUNING, stringIndex))

\* pitch class sounded by a fret (>= 0) of a string
FretPitchClass(stringIndex, fret) == (OpenPitchClass(stringIndex) + fret) % 12

\* the chord-tone set of (root, quality)
ChordTones(root, quality) ==
  LET n == getChordNotes(root, quality) IN {n[k] : k \in 1..Len(n)}

\* a value that is not the muted sentinel is a fret that exists and sounds a chord tone
SoundsChordTone(stringIndex, fret, root, quality) ==
  /\ fret >= 0
  /\ FretPitchClass(stringIndex, fret) \in ChordTones(root, quality)

OnlyChordTones(frets, root, quality) ==
  \A s \in Strings :
    At(frets, s) # -1 => SoundsChordTone(s, At(frets, s), root, quality)

\* C1: with validation enabled, every non-muted value transposeShape returns
\* sounds, on its string in standard tuning, a pitch class of the chord (root, quality).
C1_ValidatedTransposeOnlyChordTones ==
  (op = "transposeShape" /\ args.validate)
    => OnlyChordTones(ret, args.root, args.quality)

\* F#m from the G template: offset -1, two strings drop below the nut and are muted
C1_Witness ==
  /\ op = "transposeShape" /\ args.validate
  /\ args.root = "F#" /\ args.shape = "G" /\ args.quality = "minor"
  /\ ret = <<2, 0, -1, -1, 2, 2>>

\* the fret in 0..11 of the root on the template's root string, minus the root fret
TemplateOffset(root, shape, quality) ==
  LET t == CAGED_SHAPES[shape][quality]
      f == CHOOSE x \in 0..11 : FretPitchClass(t.rootString, x) = NoteChroma(root)
  IN f - t.rootFret

ShiftedTemplate(root, shape, quality) ==
  LET t == CAGED_SHAPES[shape][quality]
      o == TemplateOffset(root, shape, quality)
  IN [i \in 1..6 |-> IF t.frets[i] = -1 THEN -1 ELSE t.frets[i] + o]

\* C3: when the offset is >= 0, transposeShape returns -1 on the strings the
\* template mutes and template fret + offset elsewhere, with validation on and
\* off alike; the four documented examples come out as documented.
C3_NonNegativeOffsetShiftsTemplate ==
  op = "transposeShape" =>
    /\ TemplateOffset(args.root, args.shape, args.quality) >= 0
         => ret = ShiftedTemplate(args.root, args.shape, args.quality)
    /\ (args.root = "C" /\ args.shape = "C" /\ args.quality = "major")
         => ret = <<-1, 3, 2, 0, 1, 0>>
    /\ (args.root = "C" /\ args.shape = "A" /\ args.quality = "major")
         => ret = <<-1, 3, 5, 5, 5, 3>>
    /\ (args.root = "G" /\ args.shape = "E" /\ args.quality = "major")
         => ret = <<3, 5, 5, 4, 3, 3>>
    /\ (args.root = "D" /\ args.shape = "D" /\ args.quality = "minor")
         => ret = <<-1, -1, 0, 2, 3, 1>>

\* Eb minor from the C template with validation on: offset 3
C3_Witness ==
  /\ op = "transposeShape" /\ args.validate
  /\ args.root = "Eb" /\ args.shape = "C" /\ args.quality = "minor"
  /\ TemplateOffset(args.root, args.shape, args.quality) = 3
  /\ ret = <<-1, 6, 4, 3, 4, 6>>

(***************************************************************************)
(* Properties of the shape classifier                                      *)
(***************************************************************************)
\* absolute frets: muted and open pass through, fretted values move by baseFret - 1
RuleAbsolute(frets, baseFret) ==
  [i \in 1..6 |->
     IF frets[i] <= 0 \/ baseFret <= 1 THEN frets[i] ELSE frets[i] + (baseFret - 1)]

RulePlayed(a) == {s \in Strings : At(a, s) >= 0}

RuleLowest(a) == CHOOSE s \in RulePlayed(a) : \A t \in RulePlayed(a) : s <= t

RuleHighest(a) == CHOOSE s \in RulePlayed(a) : \A t \in RulePlayed(a) : s >= t

RuleHasOpen(a) == \E s \in Strings : At(a, s) = 0

\* the ordered rules 1-6 as the specification words them; "none" where no rule
\* names a label
RuleLabel(a) ==
  IF RulePlayed(a) = {} THEN "E"
  ELSE IF At(a, 0) = -1 /\ At(a, 1) = -1 /\ 2 \in RulePlayed(a) THEN "D"
  ELSE IF RuleLowest(a) = 0 /\ Cardinality(RulePlayed(a)) >= 4
  THEN IF Cardinality(RulePlayed(a)) = 6 /\ RuleHasOpen(a) /\ At(a, 5) > 0
       THEN "G" ELSE "E"
  ELSE IF RuleLowest(a) = 1
  THEN IF At(a, 0) = -1 /\ RuleHasOpen(a) /\ At(a, 2) < At(a, 1)
       THEN "C" ELSE "A"
  ELSE IF Cardinality(RulePlayed(a)) >= 5 /\ RuleLowest(a) = 0 /\ RuleHighest(a) = 5
  THEN "G"
  ELSE IF At(a, 0) = -1 /\ 1 \in RulePlayed(a)
  THEN IF RuleHasOpen(a) THEN "C" ELSE "A"
  ELSE IF RuleLowest(a) = 0 THEN "E"
  ELSE IF RuleLowest(a) = 1 THEN "A"
  ELSE IF RuleLowest(a) = 2 THEN "D"
  ELSE "none"

\* rule 6 completed: E also when the lowest played string is G, B or high E
RuleLabelTotal(a) == IF RuleLabel(a) = "none" THEN "E" ELSE RuleLabel(a)

\* C6 as stated: determineCAGEDShape returns exactly the label the first
\* matching rule of rules 1-6 names.
C6_Original ==
  op = "determineCAGEDShape"
    => ret = RuleLabel(RuleAbsolute(args.frets, args.baseFret))

\* C6 amended: determineCAGEDShape returns the label of the first matching rule
\* of rules 1-6, where rule 6 also gives E when the lowest played string is
\* string 3, 4 or 5; open D major at baseFret 1 is a D.
C6_ClassifierFollowsRules ==
  op = "determineCAGEDShape" =>
    /\ ret = RuleLabelTotal(RuleAbsolute(args.frets, args.baseFret))
    /\ (args.frets = <<-1, -1, 0, 2, 3, 2>> /\ args.baseFret = 1) => ret = "D"

\* an open C chord moved to baseFret 2 goes through rule 3 and is a C
C6_Witness ==
  /\ op = "determineCAGEDShape"
  /\ args.frets = <<-1, 3, 2, 0, 1, 0>> /\ args.baseFret = 2
  /\ ret = "C"

(***************************************************************************)
(* Properties of the voicing assembler                                     *)
(***************************************************************************)
Returned == op = "getValidatedCAGEDVoicings"

\* absolute frets of a returned voicing
VoicingAbsolute(v) == RuleAbsolute(v.frets, v.baseFret)

\* the chord quality the request stands for, for the two base qualities
BaseQuality(quality) ==
  IF quality \in {"", "major"} THEN "major"
  ELSE IF quality \in {"m", "minor"} THEN "minor" ELSE "none"

\* the offset drives a string the template plays below the nut
DrivesBelowNut(root, shape, quality) ==
  \E i \in 1..6 :
    /\ CAGED_SHAPES[shape][quality].frets[i] # -1
    /\ CAGED_SHAPES[shape][quality].frets[i] + TemplateOffset(root, shape, quality) < 0

\* C2 as stated: every returned voicing with validated = true sounds only
\* chord tones of (root, quality) on its non-muted strings.
C2_ValidatedVoicingOnlyChordTones ==
  Returned =>
    \A i \in 1..Len(ret) :
      ret[i].validated => OnlyChordTones(VoicingAbsolute(ret[i]), args.root, args.quality)

\* C4 as stated: a shape whose transposition drives a played string to a
\* negative fret is omitted; no returned voicing is built from it.
C4_BelowNutShapeOmitted ==
  Returned =>
    \A i \in 1..Len(ret) :
      ret[i].template # "db"
        => ~DrivesBelowNut(args.root, ret[i].template, BaseQuality(args.quality))

WellFormedFrets(frets) ==
  /\ Len(frets) = 6
  /\ \A i \in 1..6 : frets[i] \in -1..24

\* C5: every array transposeShape returns with validation enabled, and the
\* fret array of every voicing getValidatedCAGEDVoicings returns, has exactly
\* 6 values, each in -1..24 (the library's own fret arrays being such).
C5_SixFretsInRange ==
  /\ (op = "transposeShape" /\ args.validate) => WellFormedFrets(ret)
  /\ Returned =>
       /\ \A k \in 1..Len(args.library) : WellFormedFrets(args.library[k].frets)
       /\ \A i \in 1..Len(ret) : WellFormedFrets(ret[i].frets)

\* B minor: the C template lands one string below the nut; the voicing built
\* from what is left is returned next to a library voicing
C5_Witness ==
  /\ Returned /\ args.root = "B" /\ args.quality = "minor"
  /\ \E i, j \in 1..Len(ret) :
       /\ ret[i].template = "C" /\ ret[i].frets = <<-1, 1, 0, -1, 0, 1>>
       /\ ret[i].baseFret = 2
       /\ ret[j].template = "db"

HasLabel(voicings, shape, notes) ==
  \E i \in 1..Len(voicings) :
    /\ voicings[i].cagedShape = shape
    /\ voicings[i].validated
    /\ {voicings[i].theoreticalNotes[k] : k \in 1..Len(voicings[i].theoreticalNotes)} = notes

DefaultRange(options) == options.minFret = 0 /\ options.maxFret = 15

LibraryFitsAndValidates ==
  /\ Len(args.library) >= 1
  /\ Len(args.library) + 4 <= args.options.maxVoicings
  /\ \A k \in 1..Len(args.library) :
       ChordTones(args.root, args.quality) \subseteq
         {FretPitchClass(s, At(VoicingAbsolute(args.library[k]), s)) :
            s \in {t \in Strings : At(VoicingAbsolute(args.library[k]), t) >= 0}}

C8_Original ==
  Returned =>
    /\ \A i, j \in 1..Len(ret) : ret[i].cagedShape = ret[j].cagedShape => i = j
    /\ Len(ret) <= 5

\* labels of the library voicings that pass the fret-range filter
LibraryLabels ==
  {RuleLabelTotal(VoicingAbsolute(args.library[k])) :
     k \in {n \in 1..Len(args.library) :
              LET active == {args.library[n].frets[i] : i \in 1..6} \cap 1..100
              IN active = {} \/ \E m \in active :
                   /\ \A x \in active : x <= m
                   /\ m >= args.options.minFret /\ m <= args.options.maxFret}}

\* C8 amended: the list is not deduplicated by label; it holds at most one
\* template-generated voicing per template shape, none for a shape that labels
\* a library voicing inside the fret range, hence at most five generated ones.
C8_OneGeneratedPerMissingShape ==
  Returned =>
    /\ \A i, j \in 1..Len(ret) :
         (ret[i].template # "db" /\ ret[i].template = ret[j].template) => i = j
    /\ \A i \in 1..Len(ret) :
         ret[i].template # "db" => ret[i].template \notin LibraryLabels
    /\ Cardinality({i \in 1..Len(ret) : ret[i].template # "db"}) <= 5

\* two voicings labelled E, one from the library and one generated from the G
\* template, in one result
C8_Witness ==
  /\ Returned
  /\ \E i, j \in 1..Len(ret) :
       /\ i # j
       /\ ret[i].cagedShape = "E" /\ ret[i].template = "db"
       /\ ret[j].cagedShape = "E" /\ ret[j].template = "G"

\* C9 as stated: the result is sorted ascending by baseFret and holds at most
\* maxVoicings entries.
C9_Original ==
  Returned =>
    /\ \A i \in 1..(Len(ret) - 1) : ret[i].baseFret <= ret[i + 1].baseFret
    /\ Len(ret) <= args.options.maxVoicings

HasOpen(v) == \E i \in 1..6 : v.frets[i] = 0

\* a is not harder than b: open strings first, then fewer barres, then lower baseFret
NotHarder(a, b) ==
  \/ HasOpen(a) /\ ~HasOpen(b)
  \/ /\ HasOpen(a) = HasOpen(b)
     /\ \/ Len(a.barrePositions) < Len(b.barrePositions)
        \/ /\ Len(a.barrePositions) = Len(b.barrePositions)
           /\ a.baseFret <= b.baseFret

ShapeRank(shape) == CHOOSE k \in 1..5 : allShapes[k] = shape

\* C9 amended: the result holds at most maxVoicings entries; library voicings
\* come first, easier before harder (open strings, then fewer barres, then
\* lower baseFret), followed by the generated voicings in the template order
\* C, A, G, E, D; it is not sorted by baseFret.
C9_DifficultyThenTemplates ==
  Returned =>
    /\ Len(ret) <= args.options.maxVoicings
    /\ \A i \in 1..(Len(ret) - 1) :
         IF ret[i].template = "db"
         THEN ret[i + 1].template = "db" => NotHarder(ret[i], ret[i + 1])
         ELSE /\ ret[i + 1].template # "db"
              /\ ShapeRank(ret[i].template) < ShapeRank(ret[i + 1].template)

\* two library voicings handed over harder first come back easier first, the
\* generated ones follow with lower base frets, and the list is cut at maxVoicings
C9_Witness ==
  /\ Returned /\ Len(args.library) = 2
  /\ Len(ret) = args.options.maxVoicings
  /\ ret[1].template = "db" /\ ret[2].template = "db" /\ ret[3].template # "db"
  /\ ret[1].frets = args.library[2].frets /\ ret[1].baseFret = args.library[2].baseFret
  /\ ret[1] # ret[2]
  /\ ret[3].baseFret < ret[2].baseFret

\* C10 as stated: every returned voicing has its baseFret inside [minFret, maxFret].
C10_BaseFretInRange ==
  Returned =>
    \A i \in 1..Len(ret) :
      /\ ret[i].baseFret >= args.options.minFret
      /\ ret[i].baseFret <= args.options.maxFret

(***************************************************************************)
(* Template generation and failure handling of the assembler               *)
(***************************************************************************)
\* a call of fn has run to its end, by return or by exception
Finished(fn) == op \notin {"idle", "call"} /\ args.fn = fn

\* the shifted template with the strings that fall below the nut muted
PlayableTemplate(root, shape, quality) ==
  [i \in 1..6 |->
     IF ShiftedTemplate(root, shape, quality)[i] < 0 THEN -1
     ELSE ShiftedTemplate(root, shape, quality)[i]]

\* the lowest fretted position of the playable template, 1 if nothing is fretted
TemplateBaseFret(root, shape, quality) ==
  LET fretted == {PlayableTemplate(root, shape, quality)[i] : i \in 1..6} \cap 1..24
  IN IF fretted = {} THEN 1 ELSE CHOOSE x \in fretted : \A y \in fretted : x <= y

\* the template voicing of a shape is not rejected for its baseFret
TemplateInRange(shape) ==
  LET b == TemplateBaseFret(args.root, shape, BaseQuality(args.quality))
  IN b >= args.options.minFret /\ b <= args.options.maxFret

\* neither the validation filter nor the truncation can drop a candidate
AllCandidatesReturned ==
  /\ ~args.options.onlyValidated
  /\ Len(args.library) + 5 <= args.options.maxVoicings

\* every missing shape that is not rejected has its template voicing in the result
MissingShapesGenerated ==
  \A shape \in Shapes :
    (shape \notin LibraryLabels /\ TemplateInRange(shape))
      => \E i \in 1..Len(ret) : ret[i].template = shape

\* C11 as stated: for major or minor and a chord the oracle knows, every shape
\* label absent from the classified library voicings gets its template
\* voicing added unless its baseFret is out of range (no fret below -1 ever
\* results), also when the library holds nothing for the chord.
C11_MissingShapesGenerated ==
  (Returned /\ BaseQuality(args.quality) # "none" /\ args.root \in RootNames
     /\ ChordTones(args.root, args.quality) # {} /\ AllCandidatesReturned)
    => MissingShapesGenerated

\* C12: when getChordNotes answers no note for (root, quality),
\* getValidatedCAGEDVoicings returns the empty list and throws nothing.
C12_UnknownChordEmptyList ==
  (Finished("getValidatedCAGEDVoicings") /\ ChordTones(args.root, args.quality) = {})
    => (op = "getValidatedCAGEDVoicings" /\ ret = <<>>)

\* a chord type the oracle does not know, two library voicings on offer, no
\* validation filter: still nothing is returned
C12_Witness ==
  /\ Returned /\ args.root = "G" /\ args.quality = "h9"
  /\ Len(args.library) = 2 /\ ~args.options.onlyValidated
  /\ ret = <<>>

\* the library voicing k passes the fret-range filter
LibraryVoicingInRange(k) ==
  LET active == {args.library[k].frets[i] : i \in 1..6} \cap 1..100
  IN active = {} \/ \E m \in active :
       /\ \A x \in active : x <= m
       /\ m >= args.options.minFret /\ m <= args.options.maxFret

C14_Original ==
  (op \notin {"idle", "call"} /\ args.root \in UnknownNames)
    => (op = "throw" /\ ret = <<>>)

\* C14 amended: a note name behind which no pitch class stands makes
\* transposeShape throw, and no fret array is returned;
\* getValidatedCAGEDVoicings returns the empty list for it and throws nothing.
C14_InvalidNoteThrownByTransposer ==
  (op \notin {"idle", "call"} /\ args.root \in UnknownNames) =>
    /\ args.fn = "transposeShape" => (op = "throw" /\ ret = <<>>)
    /\ args.fn = "getValidatedCAGEDVoicings"
         => (op = "getValidatedCAGEDVoicings" /\ ret = <<>>)

\* transposeShape('H', 'E', 'major') has thrown
C14_Witness ==
  /\ op = "throw" /\ args.fn = "transposeShape"
  /\ args.root = "H" /\ args.shape = "E" /\ args.quality = "major" /\ args.validate
  /\ ret = <<>>

\* C15: for a quality other than '', 'major', 'm' and 'minor' no returned
\* voicing is template-generated; each is one of the library's voicings.
C15_ExtendedQualityLibraryOnly ==
  (Returned /\ args.quality \notin {"", "major", "m", "minor"}) =>
    \A i \in 1..Len(ret) :
      /\ ret[i].template = "db"
      /\ \E k \in 1..Len(args.library) :
           /\ ret[i].frets = args.library[k].frets
           /\ ret[i].baseFret = args.library[k].baseFret
           /\ ret[i].barrePositions = args.library[k].barres

\* D7 with two library voicings and no validation filter: both come back
C15_Witness ==
  /\ Returned /\ args.root = "D" /\ args.quality = "7"
  /\ Len(args.library) = 2 /\ Len(ret) = 2
  /\ ret[1].template = "db" /\ ret[2].template = "db"

\* the result of the call in hand with onlyValidated set to v
ResultWithOnlyValidated(v) ==
  getValidatedCAGEDVoicings(args.root, args.quality,
                            [args.options EXCEPT !.onlyValidated = v], args.library)

\* C16: with onlyValidated = true every returned voicing has validated = true,
\* and the result of the same request with onlyValidated = false is at least
\* as long.
C16_OnlyValidatedFilters ==
  Returned =>
    /\ args.options.onlyValidated => \A i \in 1..Len(ret) : ret[i].validated
    /\ Len(ResultWithOnlyValidated(TRUE)) <= Len(ResultWithOnlyValidated(FALSE))

\* a request whose result loses a voicing to the validation filter
C16_Witness ==
  /\ Returned /\ args.options.onlyValidated
  /\ Len(ret) > 0
  /\ ret = ResultWithOnlyValidated(TRUE)
  /\ Len(ret) < Len(ResultWithOnlyValidated(FALSE))
  /\ \E i \in 1..Len(ResultWithOnlyValidated(FALSE)) :
       ~ResultWithOnlyValidated(FALSE)[i].validated

(***************************************************************************)
(* Round trip and position independence of the classifier                  *)
(***************************************************************************)
\* C17: the template of shape S transposed to the root S, major or minor,
\* and classified with baseFret = 1 is labelled S.
C17_NativeRootRoundTrip ==
  (op = "determineCAGEDShape" /\ args.transposed.root = args.transposed.shape)
    => ret = args.transposed.shape

\* G minor from the G template comes back as the template and is a G
C17_Witness ==
  /\ op = "determineCAGEDShape"
  /\ args.transposed.root = "G" /\ args.transposed.shape = "G"
  /\ args.transposed.quality = "minor"
  /\ args.frets = <<3, 1, 0, 0, 3, 3>> /\ args.baseFret = 1
  /\ ret = "G"

\* base frets the label of a pattern is compared across
ComparedBaseFrets == 1..15

\* C18: the label does not depend on the baseFret: a baseFret-relative
\* pattern gets the same label at every baseFret >= 1.
C18_LabelIndependentOfBaseFret ==
  op = "determineCAGEDShape" =>
    \A b \in ComparedBaseFrets : determineCAGEDShape(args.frets, b) = ret

\* the open C pattern is a C at baseFret 5 as it is at baseFret 1
C18_Witness ==
  /\ op = "determineCAGEDShape"
  /\ args.frets = <<-1, 3, 2, 0, 1, 0>> /\ args.baseFret = 5
  /\ ret = "C"
  /\ determineCAGEDShape(args.frets, 1) = "C"

(***************************************************************************)
(* Difficulty                                                              *)
(***************************************************************************)
Rated == op = "calculateDifficulty"

OpenAndNoBarre(position) == HasOpen(position) /\ Len(position.barres) = 0

HighOrManyBarres(position) == position.baseFret > 12 \/ Len(position.barres) > 1

\* C19 as stated: a voicing with an open string and no barre is rated beginner.
C19_Original ==
  (Rated /\ OpenAndNoBarre(args.position)) => ret = "beginner"

\* C19 amended: a voicing with an open string, no barre and a baseFret of at
\* most 12 is rated beginner; above baseFret 12 it is rated advanced.
C19_OpenNoBarreUpToFret12 ==
  (Rated /\ OpenAndNoBarre(args.position)) =>
    IF args.position.baseFret <= 12 THEN ret = "beginner" ELSE ret = "advanced"

\* an open high E string over fretted strings, no barre, baseFret 5
C19_Witness ==
  /\ Rated
  /\ args.position.frets = <<-1, -1, 2, 1, -1, 0>>
  /\ args.position.barres = <<>> /\ args.position.baseFret = 5
  /\ ret = "beginner"

\* C20: a voicing with baseFret > 12 or more than one barre is rated advanced,
\* and one that is neither that nor open-and-without-barre is rated intermediate.
C20_AdvancedElseIntermediate ==
  Rated =>
    /\ HighOrManyBarres(args.position) => ret = "advanced"
    /\ (~HighOrManyBarres(args.position) /\ ~OpenAndNoBarre(args.position))
         => ret = "intermediate"

\* an open string and no barre at baseFret 13: advanced
C20_Witness ==
  /\ Rated
  /\ OpenAndNoBarre(args.position) /\ args.position.baseFret = 13
  /\ ret = "advanced"

(***************************************************************************)
(* Spelling                                                                *)
(***************************************************************************)
\* the sharp name of the pitch class that a flat name spells
SharpOf(flat) ==
  CHOOSE sharp \in {"C#", "D#", "F#", "G#", "A#"} : NoteChroma(sharp) = NoteChroma(flat)

\* C21: transposeShape called with a flat name (Db, Eb, Gb, Ab, Bb) returns,
\* for every shape, both qualities and with or without validation, the array
\* that it returns for the sharp name of the same pitch class.
C21_FlatNameSameAsSharpName ==
  (Finished("transposeShape") /\ args.root \in FlatNames) =>
    /\ op = "transposeShape"
    /\ ~transposeShapeThrows(SharpOf(args.root), args.shape, args.quality)
    /\ ret = transposeShape(SharpOf(args.root), args.shape, args.quality, args.validate)

\* transposeShape('Bb', 'A', 'major') is the A shape at fret 1, as for 'A#'
C21_Witness ==
  /\ op = "transposeShape"
  /\ args.root = "Bb" /\ args.shape = "A" /\ args.quality = "major" /\ args.validate
  /\ ret = <<-1, 1, 3, 3, 3, 1>>
  /\ ret = transposeShape("A#", "A", "major", TRUE)

\* C22: for each of the 17 note names of the chromatic table (12 sharp
\* spellings, 5 flat spellings) and every string index 0..5, getNoteOnString
\* returns without an exception the one fret in 0..11 at which the string
\* sounds the note's pitch class.
C22_UniqueFretInFirstOctave ==
  (Finished("getNoteOnString") /\ args.note \in RootNames) =>
    /\ op = "getNoteOnString"
    /\ ret \in 0..11
    /\ (OpenPitchClass(args.stringIndex) + ret) % 12 = NoteChroma(args.note)
    /\ \A f \in 0..11 :
         (OpenPitchClass(args.stringIndex) + f) % 12 = NoteChroma(args.note) => f = ret

\* getNoteOnString('Db', 2): a pitch class below the open D string wraps to fret 11
C22_Witness ==
  /\ op = "getNoteOnString"
  /\ args.note = "Db" /\ args.stringIndex = 2
  /\ ret = 11

(***************************************************************************)
(* Relative and absolute frets                                             *)
(***************************************************************************)
\* the lowest fretted (> 0) value of a fret array, 1 when no string is fretted
LowestFrettedOrOne(a) ==
  IF \A i \in 1..6 : a[i] <= 0 THEN 1
  ELSE CHOOSE m \in {a[i] : i \in 1..6} :
         m > 0 /\ \A i \in 1..6 : a[i] > 0 => m <= a[i]

\* C30: for an absolute fret array a of six values from -1, 0 and frets up
\* to 24, toAbsoluteFrets(absoluteFretsToChordPosition(a)) is a again, and
\* the position's baseFret is the lowest fretted value of a, or 1 when no
\* string is fretted.
C30_ConversionLossless ==
  op = "toAbsoluteFrets" =>
    /\ ret = args.converted.absoluteFrets
    /\ args.position.baseFret = LowestFrettedOrOne(args.converted.absoluteFrets)

\* x-2-24-24-0-2: baseFret 2, relative frets x-1-23-23-0-1, and back
C30_Witness ==
  /\ op = "toAbsoluteFrets"
  /\ args.converted.absoluteFrets = <<-1, 2, 24, 24, 0, 2>>
  /\ args.position.baseFret = 2
  /\ args.position.frets = <<-1, 1, 23, 23, 0, 1>>
  /\ ret = <<-1, 2, 24, 24, 0, 2>>

(***************************************************************************)
(* Validation of a voicing                                                 *)
(***************************************************************************)
\* some string of frets that is not muted sounds the pitch class of the note
Sounded(frets, note) ==
  \E s \in 0..5 :
    At(frets, s) # -1 /\ (OpenPitchClass(s) + At(frets, s)) % 12 = NoteChroma(note)

\* C24: validateChordVoicing(frets, expectedNotes) is true exactly when
\* expectedNotes is not empty and the pitch class of every expected note,
\* whatever its spelling, is sounded by a string of frets that is not muted;
\* for empty expectedNotes it is false.
C24_TrueIffEveryExpectedPitchClassSounded ==
  Finished("validateChordVoicing") =>
    /\ op = "validateChordVoicing"
    /\ ret = (/\ Len(args.expectedNotes) # 0
              /\ \A e \in 1..Len(args.expectedNotes) :
                   Sounded(args.frets, args.expectedNotes[e]))
    /\ Len(args.expectedNotes) = 0 => ret = FALSE

\* 1-x-x-1-2-x sounds F, G# and C#, which validates the notes spelled Db, F, Ab
C24_Witness ==
  /\ op = "validateChordVoicing"
  /\ args.frets = <<1, -1, -1, 1, 2, -1>>
  /\ args.expectedNotes = <<"Db", "F", "Ab">>
  /\ ret = TRUE

(***************************************************************************)
(* Labels of the template-generated voicings                               *)
(***************************************************************************)
\* C27: every template-generated voicing that getValidatedCAGEDVoicings
\* returns carries, as the label determineCAGEDShape gives its relative frets
\* and baseFret, the shape of the template it was generated from.
C27_GeneratedLabelledWithOwnShape ==
  Returned =>
    \A i \in 1..Len(ret) :
      ret[i].template # "db" => ret[i].cagedShape = ret[i].template

(***************************************************************************)
(* AlphaTab chords                                                         *)
(***************************************************************************)
\* the fret array that an AlphaTeX chord writes down
FretsOfAlphaTeX(tex) ==
  [i \in 1..6 |->
     IF \E k \in 1..Len(tex) : tex[k][2] = 7 - i
     THEN (CHOOSE pair \in {tex[k] : k \in 1..Len(tex)} : pair[2] = 7 - i)[1]
     ELSE -1]

\* the library voicing k passes validateChordVoicing for the chord asked for
LibraryVoicingPasses(k) ==
  validateChordVoicing(toAbsoluteFrets(args.library[k]),
                       getChordNotes(args.root, args.quality))

\* C28: getValidatedChordForAlphaTab emits a voicing that passes
\* validateChordVoicing whenever some library voicing passes it; it emits the
\* all-open fallback only when the oracle knows no chord tones or the
\* library has no voicing for the chord.
C28_ValidatedVoicingEmitted ==
  op = "getValidatedChordForAlphaTab" =>
    /\ (\E k \in 1..Len(args.library) : LibraryVoicingPasses(k))
         => validateChordVoicing(FretsOfAlphaTeX(ret),
                                 getChordNotes(args.root, args.quality))
    /\ ret = alphaTeXFallback
         => (Len(getChordNotes(args.root, args.quality)) = 0 \/ Len(args.library) = 0)

(***************************************************************************)
(* The five voicings of generateCAGEDVoicings                              *)
(***************************************************************************)
SupportedQualities == {"", "m", "maj7", "m7", "min7", "7", "sus2", "sus4"}

MinorTypeQualities == {"m", "m7", "min7"}

\* the order of the shapes for a quality: C, A, G, E, D or A, G, E, D, C
ShapeOrder(quality) ==
  IF quality \in MinorTypeQualities THEN <<"A", "G", "E", "D", "C">>
  ELSE <<"C", "A", "G", "E", "D">>

\* the voicings are one per shape of order, in that order, each of six fret
\* values in -1..15
OnePerShapeInOrder(voicings, order) ==
  /\ Len(voicings) = Len(order)
  /\ \A i \in 1..Len(voicings) :
       /\ voicings[i].cagedShape = order[i]
       /\ Len(voicings[i].frets) = 6
       /\ \A s \in 1..6 : voicings[i].frets[s] \in -1..15

\* generateCAGEDVoicings was called with one of the 12 chromatic roots, in
\* either spelling, and a supported quality
GeneratedForSupported ==
  /\ Finished("generateCAGEDVoicings")
  /\ args.root \in RootNames
  /\ args.quality \in SupportedQualities

\* C25 as stated: five voicings, one per shape in the order of the quality,
\* for each of the 12 roots and each supported quality.
C25_Original ==
  GeneratedForSupported =>
    (op = "generateCAGEDVoicings" /\ OnePerShapeInOrder(ret, ShapeOrder(args.quality)))

\* C25 amended: five voicings, one per shape in the order of the quality,
\* each of six fret values in -1..15, for each of the 12 roots and each
\* supported quality, except for F# (Gb) with 'm7' or 'min7': there the G
\* shape would reach fret 16 and is skipped, which leaves the four voicings
\* A, E, D, C.
C25_FiveVoicingsButFSharpMinor7 ==
  GeneratedForSupported =>
    /\ op = "generateCAGEDVoicings"
    /\ IF NoteChroma(args.root) = 6 /\ args.quality \in {"m7", "min7"}
       THEN OnePerShapeInOrder(ret, <<"A", "E", "D", "C">>)
       ELSE OnePerShapeInOrder(ret, ShapeOrder(args.quality))

\* generateCAGEDVoicings('F#', 'm7'): four voicings, none of the G shape
C25_Witness ==
  /\ op = "generateCAGEDVoicings"
  /\ args.root = "F#" /\ args.quality = "m7"
  /\ Len(ret) = 4
  /\ ret[1].cagedShape = "A" /\ ret[1].frets = <<-1, 9, 11, 9, 10, 9>>
  /\ ret[2].cagedShape = "E"

(***************************************************************************)
(* The extended-chord table                                                *)
(***************************************************************************)
\* the pitch classes of a chord by its type: maj7 = 1-3-5-7, m7 = 1-b3-5-b7,
\* 7 = 1-3-5-b7, sus2 = 1-2-5, sus4 = 1-4-5 above the root
ExtendedChordTones(root, type) ==
  LET above == CASE type = "maj7" -> {0, 4, 7, 11}
                 [] type = "m7" -> {0, 3, 7, 10}
                 [] type = "7" -> {0, 4, 7, 10}
                 [] type = "sus2" -> {0, 2, 7}
                 [] type = "sus4" -> {0, 5, 7}
  IN {(NoteChroma(root) + k) % 12 : k \in above}

\* C26: every entry of the extended-chord table (maj7, m7, 7, sus2, sus4 for
\* each of the 17 root spellings) sounds on its strings that are not muted,
\* in standard tuning, only pitch classes of the chord it is named for.
C26_TableEntriesOnlyChordTones ==
  (op = "getExtendedChordShape" /\ ret # "null") =>
    \A s \in 0..5 :
      At(ret, s) # -1 =>
        (OpenPitchClass(s) + At(ret, s)) % 12
          \in ExtendedChordTones(args.chordName[1], args.chordName[2])

RECURSIVE RecordedBefore(_, _)
RecordedBefore(k, chord) ==
  IF k = 1 THEN [some |-> FALSE, at |-> 0]
  ELSE LET e == taps[k - 1]
       IN IF e.kind = "render" \/ e.opened THEN [some |-> FALSE, at |-> 0]
          ELSE IF e.chord = chord THEN [some |-> TRUE, at |-> e.at]
          ELSE RecordedBefore(k - 1, chord)

\* C29: a click on a tablature view opens the modal exactly when it comes
\* more than 0 ms and less than 300 ms after the click recorded for the view;
\* a click that opens the modal resets the recorded time, and the click that
\* directly follows a modal-opening click never opens the modal.
C29_DoubleClickOpensModal ==
  /\ \A k \in 1..Len(taps) :
       taps[k].kind = "tap" =>
         LET recorded == RecordedBefore(k, taps[k].chord)
         IN taps[k].opened <=>
              (recorded.some /\ taps[k].at - recorded.at > 0
                 /\ taps[k].at - recorded.at < 300)
  /\ \A k \in 2..Len(taps) :
       (taps[k - 1].kind = "tap" /\ taps[k - 1].opened /\ taps[k].kind = "tap")
         => ~taps[k].opened
  /\ (Len(taps) > 0 /\ taps[Len(taps)].opened) =>
       /\ isChordModalOpen
       /\ selectedChordForModal = taps[Len(taps)].chord
       /\ \A c \in TabChords : lastClickTimeRef[c] = 0

\* C, C after 299 ms (opens), C after 1 ms (recorded only), C after 1 ms (opens)
C29_Witness ==
  /\ Len(taps) = 4
  /\ \A k \in 1..4 : taps[k].kind = "tap" /\ taps[k].chord = <<"C", "">>
  /\ taps[1].at = 1000 /\ ~taps[1].opened
  /\ taps[2].at = 1299 /\ taps[2].opened
  /\ taps[3].at = 1300 /\ ~taps[3].opened
  /\ taps[4].at = 1301 /\ taps[4].opened
  /\ isChordModalOpen /\ Len(chordVoicings) > 0

====
